---- MODULE Spec2Model ----
(***************************************************************************)
(* Telemetry pipeline of the MongoDB performance monitor backend:          *)
(*   - the alert evaluator (src/api/services/alerts_evaluator.py),         *)
(*   - the rollup engine   (src/api/services/metrics_rollup.py),           *)
(*   - the sampler         (src/api/services/metrics_sampler.py),          *)
(*   - the start and shutdown of the three loops (src/api/main.py).        *)
(* The store (perfmon.metrics_samples, alert_events, metrics_rollups,      *)
(* instances, alert_rules) is the shared state; each tick of a loop is     *)
(* split at its awaits, so that writes of other tasks interleave.          *)
(*                                                                         *)
(* Conventions.  A Python Optional is a set with at most one element: {}   *)
(* is None, {v} is the value v.  A float that is a mean is kept as the     *)
(* exact fraction [num, den].  Times are whole seconds.                    *)
(***************************************************************************)
EXTENDS Integers, Sequences, FiniteSets, TLC

(***************************************************************************)
(* Bounds of the model.                                                    *)
(***************************************************************************)
MaxTime == 2
MaxSamples == 2
MaxSteps == 3
MaxSeeds == 1
MaxScopeTime == 1
MaxResumeSamples == 1
MaxResumeSteps == 2
MaxCompactSteps == 1
MaxCount == 2
MaxSamplerTime == 2
MaxFaulty == 1
MaxTicks == 2
MaxEnvSet == 2
MaxEnvInt == 1
MaxClock == 306
MaxDrift == 6

InstanceIds == {"i1", "i2"}
InstOrder == <<"i1", "i2">>
RuleOrder == <<"r1", "r2">>
RuleTypes == {"high_connections", "slow_operations_rate", "high_ops_latency"}
OpKeys == {"query", "insert", "update", "delete"}
Faults == {"none", "fetch", "lookup", "insert"}
CooldownChoices == {0, 2}
Metrics == {"connections_current", "memory_mb", "operations_per_sec"}
HalfHour == 30 * 60
BucketChoices == {HalfHour, 2 * HalfHour}
RollupEpoch == 8 * HalfHour

VARIABLES
    now,          \* wall clock (utc_now), seconds
    active,       \* ids of the instance docs matching {enabled or isActive}
    rules,        \* alert_rules collection: rule id -> rule doc
    samples,      \* metrics_samples collection
    events,       \* alert_events collection
    cooldownSec,  \* config.alert_event_cooldown_sec
    tzAware,      \* whether the MongoClient returns timezone-aware datetimes
    tickQueue,    \* (rule, instance) pairs the tick in progress has yet to evaluate
    tickPlan,     \* history: the pairs selected when the tick loaded rules and instances
    tickInst,     \* inst_docs of the tick in progress
    tickRules,    \* the rule documents of alert_rules when the tick loaded them
    evaluated,    \* history: pairs whose evaluation was attempted in the tick
    raisedPairs,  \* history: pairs whose evaluation raised in the tick
    tickNow,      \* `now` of the latest evaluation tick started
    lastEval,     \* history: the latest evaluation of one pair
    rollups,      \* metrics_rollups collection
    rollupEnabled,\* config.metrics_rollup_enabled
    bucketSeconds,\* config.metrics_rollup_bucket_seconds
    lastRollup,   \* history: the latest rollup tick
    lastRange,    \* history: the latest call of _rollup_instance_range
    retryFrom,    \* history: per instance that raised in the latest rollup tick, the
                  \* first bucket the tick left without all its rows
    counters,     \* the opcounters level each monitored server reports (serverStatus)
    lastCounters, \* last_counters of sampler_loop: instance -> fields of its last status
    samplerTicks, \* history: the times at which sampler ticks ran
    gapped,       \* history: the instances the latest sampler tick did not sample
                  \* because they were not active or their status query failed
    samplingInterval, \* config.metrics_sampling_interval_sec
    retention,    \* config.metrics_retention_days, in units of the model's clock
    lastSampler,  \* history: the latest sampler tick
    loopState,    \* each background loop: sleeping, ticking, ended or cancelled
    shutdownEvent,\* the loops whose shutdown event is set
    hookAt,       \* _on_shutdown: 0 not started, k waiting for the k-th task, 4 done
    waited,       \* seconds _on_shutdown has been waiting for the current task
    abortedTicks, \* history: the loops cancelled while a tick was in flight
    ticksRun,     \* history: the number of ticks each loop has started
    tickFailed,   \* history: the loops whose latest tick raised an Exception
    env,          \* the environment variables of the process: name -> raw value
    loadedConfig, \* the BackendConfig of init_state: {} before load_config has run
    lastQuery,    \* history: the latest timeseries query and its response
    clock,        \* monotonic time in tenths of a second
    tickStarted,  \* tick_started of each loop's latest tick
    tickEnded,    \* when each loop's latest tick ended
    sleepFor,     \* sleep_for of each loop's current wait, in tenths of a second
    lastWake,     \* history: the latest return of a loop's wait
    descriptors,  \* instances collection: instance id -> host, port, username, tls
    targets,      \* MongoManager._targets: instance id -> the cached client, if any
    lastPatch,    \* history: the latest PATCH of a rule
    threadsDone,  \* the cancelled loops whose store call in a worker thread has returned
    lateOps       \* history: the loops whose store call returned after MongoManager.close

vars == <<now, active, rules, samples, events, cooldownSec, tzAware, tickNow,
          tickQueue, tickPlan, tickInst, tickRules, evaluated, raisedPairs, lastEval,
          rollups, rollupEnabled, bucketSeconds, lastRollup, lastRange, retryFrom,
          counters, lastCounters, samplerTicks, gapped, samplingInterval, retention,
          lastSampler, loopState, shutdownEvent, hookAt, waited, abortedTicks,
          ticksRun, tickFailed, env, loadedConfig, lastQuery, clock, tickStarted,
          tickEnded, sleepFor, lastWake, descriptors, targets,
          lastPatch, threadsDone, lateOps>>

(***************************************************************************)
(* Helpers.                                                                *)
(***************************************************************************)
Max2(a, b) == IF a >= b THEN a ELSE b

The(opt) == CHOOSE x \in opt : TRUE

SetMax(S) == CHOOSE x \in S : \A y \in S : y <= x

RECURSIVE FnSum(_)
FnSum(f) ==
    IF DOMAIN f = {} THEN 0
    ELSE LET x == CHOOSE x \in DOMAIN f : TRUE
         IN  f[x] + FnSum([y \in DOMAIN f \ {x} |-> f[y]])

RECURSIVE SeqFilter(_, _)
SeqFilter(s, S) ==
    IF s = <<>> THEN <<>>
    ELSE IF Head(s) \in S THEN <<Head(s)>> \o SeqFilter(Tail(s), S)
         ELSE SeqFilter(Tail(s), S)

Range(s) == {s[k] : k \in DOMAIN s}

(***************************************************************************)
(* Sample documents.  ops(v) is an opsPerSec dict whose rates sum to v.    *)
(***************************************************************************)
Ops(v) == [k \in OpKeys |-> IF k = "query" THEN v ELSE 0]

HiShape == [connections |-> {2}, memResidentMB |-> {2}, opsPerSec |-> {Ops(2)}, avgQueryMs |-> {2}]
LoShape == [connections |-> {0}, memResidentMB |-> {1}, opsPerSec |-> {Ops(0)}, avgQueryMs |-> {0}]
EqShape == [connections |-> {1}, memResidentMB |-> {1}, opsPerSec |-> {Ops(1)}, avgQueryMs |-> {}]
NoShape == [connections |-> {},  memResidentMB |-> {},  opsPerSec |-> {},       avgQueryMs |-> {}]

SampleShapes == {HiShape, LoShape, EqShape, NoShape}

\* The samples written in the two specifications of the evaluator.
AlertSamples == ({"i1"} \X SampleShapes) \cup {<<"i2", HiShape>>}
RollupSamples == InstanceIds \X {HiShape, LoShape}
ScopeSamples == {<<"i1", HiShape>>, <<"i2", HiShape>>}
ResumeSamples == {<<"i1", HiShape>>, <<"i2", LoShape>>}
WindowSamples == {<<"i1", HiShape>>, <<"i1", EqShape>>, <<"i2", HiShape>>}

MkSample(iid, ts, shape) ==
    [instanceId |-> iid, ts |-> ts, connections |-> shape.connections,
     memResidentMB |-> shape.memResidentMB, opsPerSec |-> shape.opsPerSec,
     avgQueryMs |-> shape.avgQueryMs]

(***************************************************************************)
(* alerts_evaluator.py                                                     *)
(***************************************************************************)
SafeFloat(v) == IF v = {} THEN 0 ELSE The(v)

OpsSum(o) == IF o = {} THEN 0 ELSE FnSum(The(o))

\* Mutant: the scope of a rule is ignored.
SelectInstancesIgnoringScope(instDocs, rule) == SeqFilter(InstOrder, instDocs)

SelectInstancesForRule(instDocs, rule) ==
    IF rule.instanceScope # {} THEN <<The(rule.instanceScope)>>
    ELSE SeqFilter(InstOrder, instDocs)

GetActiveInstanceDocs == active

\* Mutant: the query has no filter on enabled.
LoadAllRules == SeqFilter(RuleOrder, DOMAIN rules)

\* find({"enabled": True}) on alert_rules.
LoadEnabledRules == SeqFilter(RuleOrder, {r \in DOMAIN rules : rules[r].enabled})

\* Mutant: the query has no upper bound on ts.
FetchSamplesFromStart(iid, windowStart, windowEnd) ==
    {s \in samples : s.instanceId = iid /\ s.ts >= windowStart}

FetchSamplesInWindow(iid, windowStart, windowEnd) ==
    {s \in samples : s.instanceId = iid /\ s.ts >= windowStart /\ s.ts <= windowEnd}

\* The signal of a non-empty list of samples (lines 88-105).
SignalOfSamples(rule, S) ==
    IF rule.type = "high_connections"
    THEN {[num |-> SetMax({SafeFloat(s.connections) : s \in S}), den |-> 1]}
    ELSE IF rule.type = "slow_operations_rate"
    THEN {[num |-> FnSum([s \in S |-> OpsSum(s.opsPerSec)]),
           den |-> Max2(1, Cardinality(S))]}
    ELSE IF rule.type = "high_ops_latency"
    THEN LET P == {s \in S : s.avgQueryMs # {}}
         IN  IF P = {} THEN {}
             ELSE {[num |-> FnSum([s \in P |-> SafeFloat(s.avgQueryMs)]),
                    den |-> Max2(1, Cardinality(P))]}
    ELSE {}

\* Mutant: the `if not samples` guard is missing and an empty window reads as 0.
ComputeSignalNoGuard(rule, S) ==
    IF S = {} THEN {[num |-> 0, den |-> 1]} ELSE SignalOfSamples(rule, S)

ComputeSignal(rule, S) ==
    IF S = {} THEN {} ELSE SignalOfSamples(rule, S)

\* Mutant: the comparison admits equality.
ShouldTriggerAtThreshold(value, threshold) ==
    IF value = {} THEN {}
    ELSE {The(value).num >= threshold * The(value).den}

ShouldTrigger(value, threshold) ==
    IF value = {} THEN {}
    ELSE {The(value).num > threshold * The(value).den}

LatestEventForPair(iid, rid) ==
    LET E == {e \in events : e.instanceId = iid /\ e.ruleId = rid}
    IN  IF E = {} THEN {}
        ELSE {CHOOSE e \in E : \A f \in E : f.createdAt <= e.createdAt}

\* Mutant: the comparison is the wrong way round.
WithinCooldownInverted(tnow, last, cooldown) ==
    IF cooldown <= 0 \/ last = {} THEN "no"
    ELSE IF ~tzAware THEN "raise"
    ELSE IF tnow - The(last).createdAt > cooldown THEN "yes"
    ELSE "no"

\* "yes" / "no", or "raise": `now - ts` of an aware and a naive datetime is a TypeError.
WithinCooldown(tnow, last, cooldown) ==
    IF cooldown <= 0 \/ last = {} THEN "no"
    ELSE IF ~tzAware THEN "raise"
    ELSE IF tnow - The(last).createdAt < cooldown THEN "yes"
    ELSE "no"

\* Mutant: no dedup.
SameStatusNever(last, desired) == FALSE

\* The dedup test of line 177: the status of the latest event against the desired one.
SameStatus(last, desired) == last # {} /\ The(last).status = desired

\* Mutant: the event type does not follow the desired status.
EventDocAlwaysTriggered(rule, iid, tnow, desired, value, S) ==
    [ruleId |-> rule.id, instanceId |-> iid,
     eventType |-> "triggered",
     status |-> desired, value |-> The(value), threshold |-> rule.threshold,
     windowSec |-> rule.windowSec, createdAt |-> tnow]

EventDoc(rule, iid, tnow, desired, value, S) ==
    [ruleId |-> rule.id, instanceId |-> iid,
     eventType |-> IF desired = "triggered" THEN "triggered" ELSE "resolved",
     status |-> desired, value |-> The(value), threshold |-> rule.threshold,
     windowSec |-> rule.windowSec, createdAt |-> tnow]

\* One evaluation: the events to insert and whether it raised.  `fault` is the
\* store call that fails, if that call is reached.
EvaluateOneRuleInstance(rule, iid, tnow, cooldown, fault) ==
    LET windowStart == tnow - Max2(1, rule.windowSec)
        S       == FetchSamplesInWindow(iid, windowStart, tnow)
        value   == ComputeSignal(rule, S)
        should  == ShouldTrigger(value, rule.threshold)
        last    == LatestEventForPair(iid, rule.id)
        desired == IF The(should) THEN "triggered" ELSE "ok"
        cool    == WithinCooldown(tnow, last, cooldown)
        Quiet   == [insert |-> {}, raised |-> FALSE]
        Raise   == [insert |-> {}, raised |-> TRUE]
    IN  IF fault = "fetch" THEN Raise
        ELSE IF should = {} THEN Quiet
        ELSE IF fault = "lookup" THEN Raise
        ELSE IF SameStatus(last, desired) THEN Quiet
        ELSE IF last # {} /\ cool = "raise" THEN Raise
        ELSE IF last # {} /\ cool = "yes" THEN Quiet
        ELSE IF fault = "insert" THEN Raise
        ELSE [insert |-> {EventDoc(rule, iid, tnow, desired, value, S)}, raised |-> FALSE]

\* Mutant: no try/except around a pair, what it raises ends the tick.
AfterPairAbort(queue, raised) == IF raised THEN <<>> ELSE Tail(queue)

\* The queue after one pair: the except of line 220 swallows what the pair raised.
AfterPair(queue, raised) == Tail(queue)

PairsOf(ruleSeq, instDocs) ==
    LET RECURSIVE Go(_)
        Go(rs) ==
            IF rs = <<>> THEN <<>>
            ELSE LET rule == rules[Head(rs)]
                     ids  == SelectInstancesForRule(instDocs, rule)
                 IN  [k \in DOMAIN ids |-> [rule |-> rule, instanceId |-> ids[k]]]
                     \o Go(Tail(rs))
    IN  Go(ruleSeq)

NoEval ==
    [acted |-> FALSE, ruleId |-> "r1", ruleType |-> "high_connections",
     instanceId |-> "i1", now |-> 0, samplesCount |-> 0, fieldAbsent |-> FALSE,
     signal |-> {}, threshold |-> 0, last |-> {}, fault |-> "none",
     raised |-> FALSE, eventsBefore |-> {}]

\* Whether the field the rule type reads is missing from every sample of S.
FieldAbsent(rule, S) ==
    \A s \in S :
        IF rule.type = "high_connections" THEN s.connections = {}
        ELSE IF rule.type = "slow_operations_rate" THEN s.opsPerSec = {}
        ELSE s.avgQueryMs = {}

(***************************************************************************)
(* metrics_rollup.py                                                       *)
(***************************************************************************)
FloorToBucket(ts, bucket) ==
    LET b == Max2(1, bucket) IN (ts \div b) * b

SetMin(S) == CHOOSE x \in S : \A y \in S : x <= y

\* mk of _build_rollup_docs: vals is the list of one metric's values, one per sample.
MkRollupDoc(iid, bucket, metric, vals) ==
    LET c == Cardinality(DOMAIN vals)
        t == FnSum(vals)
        V == {vals[x] : x \in DOMAIN vals}
    IN  [instanceId |-> iid, bucket |-> bucket, metric |-> metric,
         value |-> [num |-> t, den |-> Max2(1, c)], count |-> c,
         min |-> IF V # {} THEN SetMin(V) ELSE 0,
         max |-> IF V # {} THEN SetMax(V) ELSE 0,
         sum |-> t]

BuildRollupDocs(iid, bucket, S) ==
    IF S = {} THEN <<>>
    ELSE << MkRollupDoc(iid, bucket, "connections_current",
                        [s \in S |-> SafeFloat(s.connections)]),
            MkRollupDoc(iid, bucket, "memory_mb",
                        [s \in S |-> SafeFloat(s.memResidentMB)]),
            MkRollupDoc(iid, bucket, "operations_per_sec",
                        [s \in S |-> OpsSum(s.opsPerSec)]) >>

FetchActiveInstanceIds == SeqFilter(InstOrder, active)

LastRollupBucket(R, iid) ==
    LET B == {r.bucket : r \in {x \in R : x.instanceId = iid}}
    IN  IF B = {} THEN {} ELSE {SetMax(B)}

\* Mutant: the update adds to the stored count and sum instead of setting them.
UpsertRollupInc(R, d) ==
    LET M == {r \in R : r.instanceId = d.instanceId /\ r.bucket = d.bucket
                        /\ r.metric = d.metric}
    IN  IF M = {} THEN R \cup {d}
        ELSE LET r == CHOOSE r \in M : TRUE
             IN  (R \ {r}) \cup {[d EXCEPT !.count = r.count + d.count,
                                            !.sum = r.sum + d.sum]}

\* update_one(filter, {"$set": d}, upsert=True): one matching row takes the fields
\* of d, or d is inserted.
UpsertRollup(R, d) ==
    LET M == {r \in R : r.instanceId = d.instanceId /\ r.bucket = d.bucket
                        /\ r.metric = d.metric}
    IN  IF M = {} THEN R \cup {d}
        ELSE (R \ {CHOOSE r \in M : TRUE}) \cup {d}

RECURSIVE UpsertAll(_, _)
UpsertAll(R, docs) ==
    IF docs = <<>> THEN R ELSE UpsertAll(UpsertRollup(R, Head(docs)), Tail(docs))

\* Mutant: the loop runs while b <= end_exclusive, one bucket too far.
RECURSIVE RollupInstanceRangeThroughEnd(_, _, _, _, _)
RollupInstanceRangeThroughEnd(R, iid, startBucket, endExclusive, bucket) ==
    IF ~(startBucket <= endExclusive) THEN R
    ELSE LET bEnd == startBucket + Max2(1, bucket)
             S == {s \in samples : s.instanceId = iid /\ s.ts >= startBucket /\ s.ts < bEnd}
             R1 == IF S # {} THEN UpsertAll(R, BuildRollupDocs(iid, startBucket, S)) ELSE R
         IN  RollupInstanceRangeThroughEnd(R1, iid, bEnd, endExclusive, bucket)

\* The rows after rolling up [startBucket, endExclusive) of one instance.
RECURSIVE RollupInstanceRange(_, _, _, _, _)
RollupInstanceRange(R, iid, startBucket, endExclusive, bucket) ==
    IF ~(startBucket < endExclusive) THEN R
    ELSE LET bEnd == startBucket + Max2(1, bucket)
             S == {s \in samples : s.instanceId = iid /\ s.ts >= startBucket /\ s.ts < bEnd}
             R1 == IF S # {} THEN UpsertAll(R, BuildRollupDocs(iid, startBucket, S)) ELSE R
         IN  RollupInstanceRange(R1, iid, bEnd, endExclusive, bucket)

\* The rows after a run of _rollup_instance_range in which the update_one after
\* the first `done` documents of a bucket raises: the documents before it are in
\* the store, the rest of the bucket and of the range is not reached.
RECURSIVE RollupInstanceRangeFailing(_, _, _, _, _, _)
RollupInstanceRangeFailing(R, iid, startBucket, endExclusive, bucket, done) ==
    IF ~(startBucket < endExclusive) THEN R
    ELSE LET bEnd == startBucket + Max2(1, bucket)
             S == {s \in samples : s.instanceId = iid /\ s.ts >= startBucket /\ s.ts < bEnd}
         IN  IF S # {}
             THEN UpsertAll(R, SubSeq(BuildRollupDocs(iid, startBucket, S), 1, done))
             ELSE RollupInstanceRangeFailing(R, iid, bEnd, endExclusive, bucket, done)

\* The parameters _rollup_instance_range declares, and the positional arguments
\* _rollup_tick passes to it.
RollupInstanceRangeParams == 5
RollupTickCallArgs == 6

Lookback(bucket) == Max2(bucket * 2, 2 * 3600)

\* Mutant: the tick resumes at the latest row's bucket, not at the one after it.
StartBucketAtLast(R, iid, tnow, bucket) ==
    LET last == LastRollupBucket(R, iid)
    IN  IF last = {} THEN FloorToBucket(tnow - Lookback(bucket), bucket)
        ELSE The(last)

\* The first bucket _rollup_tick asks for, for an instance.
StartBucket(R, iid, tnow, bucket) ==
    LET last == LastRollupBucket(R, iid)
    IN  IF last = {} THEN FloorToBucket(tnow - Lookback(bucket), bucket)
        ELSE The(last) + bucket

\* The body of the try of _rollup_tick for one instance: the rows afterwards and
\* whether it raised.  `fails`: the store read of _last_rollup_bucket fails.
\* A bucket read back from the store is a naive datetime unless the client is
\* timezone-aware, and comparing it with the aware end_exclusive is a TypeError.
RollupOneInstance(R, iid, tnow, bucket, fails) ==
    LET endExclusive == FloorToBucket(tnow, bucket)
        last == LastRollupBucket(R, iid)
        startBucket == StartBucket(R, iid, tnow, bucket)
    IN  IF fails THEN [rows |-> R, raised |-> TRUE, start |-> {}]
        ELSE IF last # {} /\ ~tzAware
             THEN [rows |-> R, raised |-> TRUE, start |-> {startBucket}]
        ELSE IF startBucket >= endExclusive
             THEN [rows |-> R, raised |-> FALSE, start |-> {startBucket}]
        ELSE IF RollupTickCallArgs # RollupInstanceRangeParams
             THEN [rows |-> R, raised |-> TRUE, start |-> {startBucket}]
        ELSE [rows |-> RollupInstanceRange(R, iid, startBucket, endExclusive, bucket),
              raised |-> FALSE, start |-> {startBucket}]

\* Mutant: no try/except around an instance, what it raises ends the tick.
RECURSIVE RollupInstancesAbort(_, _, _, _, _)
RollupInstancesAbort(R, ids, tnow, bucket, failing) ==
    IF ids = <<>> THEN [rows |-> R, raised |-> {}, tried |-> {}, starts |-> {}]
    ELSE LET Join(one, rest) ==
                [rows |-> rest.rows,
                 raised |-> rest.raised \cup (IF one.raised THEN {Head(ids)} ELSE {}),
                 tried |-> rest.tried \cup {Head(ids)},
                 starts |-> rest.starts \cup {<<Head(ids), b>> : b \in one.start}]
             Then(one) ==
                Join(one, IF one.raised
                      THEN [rows |-> one.rows, raised |-> {}, tried |-> {}, starts |-> {}]
                      ELSE RollupInstancesAbort(one.rows, Tail(ids), tnow, bucket, failing))
         IN  Then(RollupOneInstance(R, Head(ids), tnow, bucket, Head(ids) \in failing))

\* The loop of _rollup_tick over the instances: each one in its own try.  `tried`
\* are the instances whose try was entered, `starts` the start_bucket computed
\* for each instance whose lookup of the latest row succeeded.
RECURSIVE RollupInstances(_, _, _, _, _)
RollupInstances(R, ids, tnow, bucket, failing) ==
    IF ids = <<>> THEN [rows |-> R, raised |-> {}, tried |-> {}, starts |-> {}]
    ELSE LET Join(one, rest) ==
                [rows |-> rest.rows,
                 raised |-> rest.raised \cup (IF one.raised THEN {Head(ids)} ELSE {}),
                 tried |-> rest.tried \cup {Head(ids)},
                 starts |-> rest.starts \cup {<<Head(ids), b>> : b \in one.start}]
             Then(one) ==
                Join(one, RollupInstances(one.rows, Tail(ids), tnow, bucket, failing))
         IN  Then(RollupOneInstance(R, Head(ids), tnow, bucket, Head(ids) \in failing))

\* For each instance that raised in a tick at tnow over the rows R, leaving the
\* rows R2: the first bucket of its range that holds samples and lacks a row of
\* one of the metrics.
LeftUnwritten(R, R2, raised, tnow, bucket) ==
    LET Span(iid) ==
           LET from == StartBucket(R, iid, tnow, bucket)
           IN  {from + j * bucket :
                   j \in 0..(((FloorToBucket(tnow, bucket) - from) \div bucket) - 1)}
        Owed(iid) ==
           {b \in Span(iid) :
               /\ \E x \in samples : x.instanceId = iid /\ x.ts >= b /\ x.ts < b + bucket
               /\ \E m \in Metrics :
                     ~\E r \in R2 : r.instanceId = iid /\ r.bucket = b /\ r.metric = m}
    IN  {<<iid, SetMin(Owed(iid))>> : iid \in {i \in raised : Owed(i) # {}}}

NoRollup ==
    [acted |-> FALSE, now |-> 0, instances |-> {}, failing |-> {}, raised |-> {},
     tried |-> {}, starts |-> {}, rowsBefore |-> {}, samplesBefore |-> {},
     owed |-> {}]

NoRange ==
    [acted |-> FALSE, instanceId |-> "i1", start |-> 0, end |-> 0, again |-> FALSE,
     rowsBefore |-> {}]

(***************************************************************************)
(* The sampler (metrics_sampler.py).  A rate is an exact fraction.         *)
(***************************************************************************)
Loops == <<"sampler", "alerts", "rollup">>

\* The timeout of each wait_for of _on_shutdown, in seconds.
ShutdownTimeout == 5

\* The amounts of time, in tenths of a second, that pass at once.
LongStep == 300

TimeSteps == {1, 4, LongStep}

\* The opcounters a server reports at level c: query and insert grow with the
\* level, update stays, delete falls (counters restart from zero with the server).
OpCounters(c) ==
    [k \in OpKeys |-> IF k = "query" THEN c
                      ELSE IF k = "insert" THEN 2 * c
                      ELSE IF k = "update" THEN 0
                      ELSE MaxCount - c]

ZeroRates == [k \in OpKeys |-> [num |-> 0, den |-> 1]]

\* _diff_ops_per_sec: prev is the optional previous opcounters, cur the current ones.
DiffOpsPerSec(prev, cur, interval) ==
    IF prev = {} THEN ZeroRates
    ELSE [k \in OpKeys |->
            [num |-> Max2(0, cur[k] - The(prev)[k]), den |-> Max2(1, interval)]]

\* sample_doc of sampler_loop.
MkSamplerDoc(iid, ts, c, rates) ==
    [instanceId |-> iid, ts |-> ts, connections |-> {1}, memResidentMB |-> {1},
     opcounters |-> OpCounters(c), opsPerSec |-> {rates}, avgQueryMs |-> {}]

SamplerFaults == {"none", "client", "status", "insert"}

\* The loop of sampler_loop over the instance documents (lines 111-146): the
\* samples and last_counters afterwards, whether an exception left the loop, and
\* the instances the loop reached.  A failing client or status query skips the
\* instance; a failing insert is not caught inside the loop.
RECURSIVE SampleInstances(_, _, _, _, _)
SampleInstances(ids, S, LC, faults, tnow) ==
    IF ids = <<>> THEN [samples |-> S, last |-> LC, aborted |-> FALSE, seen |-> {}]
    ELSE LET iid == Head(ids)
             Join(rest) == [rest EXCEPT !.seen = rest.seen \cup {iid}]
         IN  IF faults[iid] \in {"client", "status"}
             THEN Join(SampleInstances(Tail(ids), S, LC, faults, tnow))
             ELSE LET cur == OpCounters(counters[iid])
                      doc == MkSamplerDoc(iid, tnow, counters[iid],
                                          DiffOpsPerSec(LC[iid], cur, samplingInterval))
                      LC2 == [LC EXCEPT ![iid] = {cur}]
                  IN  IF faults[iid] = "insert"
                      THEN [samples |-> S, last |-> LC2, aborted |-> TRUE, seen |-> {iid}]
                      ELSE Join(SampleInstances(Tail(ids), S \cup {doc}, LC2, faults, tnow))

\* Mutant: the prune deletes the samples at the cutoff too.
ApplyRetentionInclusive(S, tnow, keep) == {x \in S : ~(x.ts <= tnow - keep)}

\* _apply_retention: delete_many({"ts": {"$lt": cutoff}}).
ApplyRetention(S, tnow, keep) == {x \in S : ~(x.ts < tnow - keep)}

NoSampler ==
    [acted |-> FALSE, now |-> 0, instances |-> {}, faults |-> <<>>, seen |-> {},
     aborted |-> FALSE, pruned |-> FALSE, samplesBefore |-> {}, beforePrune |-> {},
     gappedBefore |-> {}, handles |-> <<>>]

\* _build_target_uri: scheme, credentials, host, port and parameters.
BuildTargetUri(d) ==
    <<"mongodb", IF d.username # "" THEN <<d.username>> ELSE <<>>, d.host, d.port,
      IF d.tls THEN <<"tls=true", "authSource=admin">> ELSE <<"authSource=admin">>>>

\* MongoClient(uri): a client is known by the uri it was built from.
MongoClient(uri) == [uri |-> uri]

\* MongoManager.target_client: the client cached under the instance id, or a new
\* one built from uri and cached.
TargetClient(T, iid, uri) ==
    IF T[iid] # {} THEN [client |-> The(T[iid]), targets |-> T]
    ELSE [client |-> MongoClient(uri), targets |-> [T EXCEPT ![iid] = {MongoClient(uri)}]]

\* The descriptor instances are created with.
Descriptor(host, tls) == [host |-> host, port |-> 27017, username |-> "", tls |-> tls]

CacheIdle ==
    /\ descriptors = [i \in InstanceIds |-> Descriptor("h1", FALSE)]
    /\ targets = [i \in InstanceIds |-> {}]

SamplerIdle ==
    /\ counters = [i \in InstanceIds |-> 0]
    /\ lastCounters = [i \in InstanceIds |-> {}]
    /\ samplerTicks = {}
    /\ gapped = {}
    /\ lastSampler = NoSampler

LoopsIdle ==
    /\ loopState = [l \in Range(Loops) |-> "sleeping"]
    /\ shutdownEvent = {}
    /\ hookAt = 0
    /\ waited = 0
    /\ abortedTicks = {}
    /\ ticksRun = [l \in Range(Loops) |-> 0]
    /\ tickFailed = {}

NoWake == [acted |-> FALSE, loop |-> "sampler", wait |-> 0, byEvent |-> FALSE,
           afterTick |-> FALSE, elapsed |-> 0]

TimersIdle ==
    /\ clock = 0
    /\ tickStarted = [l \in Range(Loops) |-> 0]
    /\ tickEnded = [l \in Range(Loops) |-> 0]
    /\ sleepFor = [l \in Range(Loops) |-> 0]
    /\ lastWake = NoWake

(***************************************************************************)
(* The configuration (config.py).                                          *)
(***************************************************************************)
\* The integer settings of the pipeline and their defaults (lines 159-174).
EnvDefaults ==
    [METRICS_SAMPLING_INTERVAL_SEC |-> 5,
     METRICS_RETENTION_DAYS |-> 7,
     METRICS_ROLLUP_BUCKET_SECONDS |-> 60,
     METRICS_ROLLUP_COMPACTION_INTERVAL_SEC |-> 30,
     ALERT_EVAL_INTERVAL_SEC |-> 5,
     ALERT_EVENT_COOLDOWN_SEC |-> 60]

EnvKeys == DOMAIN EnvDefaults

\* A raw value: the variable is not set, holds text that int() rejects, or holds
\* the decimal form of an integer.
Unset == [kind |-> "unset", v |-> 0]

Text == [kind |-> "text", v |-> 0]

IntRaw(n) == [kind |-> "int", v |-> n]

\* The integers tried: around zero and around each limit of load_config.
EnvInts == {b + d : b \in {0, 5, 10, 3600}, d \in (0 - MaxEnvInt) .. MaxEnvInt}

RawValues == {Text} \cup {IntRaw(n) : n \in EnvInts}

Min2(a, b) == IF a <= b THEN a ELSE b

\* _env_int: int(os.getenv(name, str(default))), the default when int() raises.
EnvInt(raw, default) ==
    IF raw.kind = "unset" THEN default
    ELSE IF raw.kind = "int" THEN raw.v
    ELSE default

\* Mutant: the clamp has no lower limit.
ClampIntNoFloor(v, lo, hi) == Min2(hi, v)

\* _clamp_int.
ClampInt(v, lo, hi) == Max2(lo, Min2(hi, v))

\* load_config, for the settings of the three loops.
LoadConfig(e) ==
    LET Get(k) == EnvInt(e[k], EnvDefaults[k])
    IN  [metrics_sampling_interval_sec |-> Max2(1, Get("METRICS_SAMPLING_INTERVAL_SEC")),
         metrics_retention_days |-> Max2(1, Get("METRICS_RETENTION_DAYS")),
         metrics_rollup_bucket_seconds |->
             ClampInt(Get("METRICS_ROLLUP_BUCKET_SECONDS"), 10, 3600),
         metrics_rollup_compaction_interval_sec |->
             ClampInt(Get("METRICS_ROLLUP_COMPACTION_INTERVAL_SEC"), 5, 3600),
         alert_eval_interval_sec |-> Max2(1, Get("ALERT_EVAL_INTERVAL_SEC")),
         alert_event_cooldown_sec |-> Max2(0, Get("ALERT_EVENT_COOLDOWN_SEC"))]

(***************************************************************************)
(* The timeseries query (metrics_service.py).                              *)
(***************************************************************************)
\* config.metrics_rollup_query_threshold_seconds, here one hour.
QueryThreshold == 2 * HalfHour

\* step_seconds of the request (its default).
StepSeconds == 60

MetricFromSample(x, metric) ==
    IF metric = "connections_current" THEN SafeFloat(x.connections)
    ELSE IF metric = "operations_per_sec" THEN OpsSum(x.opsPerSec)
    ELSE IF metric = "avg_query_ms" THEN SafeFloat(x.avgQueryMs)
    ELSE IF metric = "memory_mb" THEN SafeFloat(x.memResidentMB)
    ELSE 0

\* get_timeseries: the raw samples of the instance in [start, end], averaged per
\* step; the point of a step carries the earliest timestamp in it.  The rollup
\* rows, the enable flag and the threshold are not read.
GetTimeseries(iid, metric, start, end, step) ==
    LET docs == {x \in samples : x.instanceId = iid /\ start <= x.ts /\ x.ts <= end}
        st == Max2(10, step)
        keys == {x.ts \div st : x \in docs}
        In(key) == {x \in docs : x.ts \div st = key}
    IN  {[ts |-> SetMin({x.ts : x \in In(key)}),
          value |-> [num |-> FnSum([x \in In(key) |-> MetricFromSample(x, metric)]),
                     den |-> Max2(1, Cardinality(In(key)))]] : key \in keys}

NoQuery ==
    [acted |-> FALSE, instanceId |-> "i1", metric |-> "connections_current",
     start |-> 0, end |-> 0, points |-> {}]

(***************************************************************************)
(* Actions.  The history variables (tickPlan, tickInst, evaluated,         *)
(* raisedPairs, lastEval) describe the tick or the evaluation that has     *)
(* just happened: the next step of the environment clears them.            *)
(***************************************************************************)
\* The histories are cleared.
NoHistory ==
    /\ lastEval' = NoEval
    /\ lastRollup' = NoRollup
    /\ lastRange' = NoRange
    /\ lastSampler' = NoSampler
    /\ lastQuery' = NoQuery
    /\ IF tickQueue = <<>>
       THEN tickPlan' = <<>> /\ tickInst' = {} /\ tickRules' = {} /\ evaluated' = {} /\ raisedPairs' = {}
       ELSE UNCHANGED <<tickPlan, tickInst, tickRules, evaluated, raisedPairs>>

config == <<rules, cooldownSec, tzAware, rollupEnabled, bucketSeconds>>

\* The state of the sampler and of the loops' life cycle.
samplerVars ==
    <<counters, lastCounters, samplerTicks, gapped, samplingInterval, retention>>

loopVars ==
    <<loopState, shutdownEvent, hookAt, waited, abortedTicks, ticksRun, tickFailed>>

\* What the evaluator, the clock and the CRUD layer never write.
\* The environment of the process and the configuration read from it.
startVars == <<env, loadedConfig>>

\* The timing of the loops' waits.
timerVars == <<clock, tickStarted, tickEnded, sleepFor, lastWake>>

\* What only the scheduling of the loops writes.
\* The monitored instances' descriptors and the clients cached for them.
cacheVars == <<descriptors, targets>>

\* The worker threads of _run_in_thread that outlive their task.
threadVars == <<threadsDone, lateOps>>

sideVars == <<timerVars, cacheVars, lastPatch, threadVars>>

aside == <<retryFrom, samplerVars, loopVars, startVars, sideVars>>

\* The clock advances.  A tick reads the clock once, when it starts, so the
\* clock is moved between ticks only.
Advance(step, limit) ==
    /\ tickQueue = <<>>
    /\ now + step <= limit
    /\ now' = now + step
    /\ NoHistory
    /\ UNCHANGED <<active, samples, events, rollups, config, tickNow, tickQueue, aside>>

\* A sample document is written (the sampler, or a direct insert as in the tests).
InsertSample(choices, limit) ==
    /\ tickQueue = <<>>
    /\ Cardinality(samples) < limit
    /\ \E c \in choices : samples' = samples \cup {MkSample(c[1], now, c[2])}
    /\ NoHistory
    /\ UNCHANGED <<now, active, events, rollups, config, tickNow, tickQueue, aside>>

\* The CRUD layer activates or deactivates an instance.
SetActive ==
    /\ \E iid \in InstanceIds :
          active' = IF iid \in active THEN active \ {iid} ELSE active \cup {iid}
    /\ NoHistory
    /\ UNCHANGED <<now, samples, events, rollups, config, tickNow, tickQueue, aside>>

\* _evaluation_tick up to its loops: now, cooldown, inst_docs and rules are read.
\* The loop sleeps at least 0.1 s after a tick, so two ticks never read the same now.
TickStart ==
    /\ tickQueue = <<>>
    /\ now > tickNow
    /\ LET instDocs == GetActiveInstanceDocs
           queue == PairsOf(LoadEnabledRules, instDocs)
       IN  /\ tickNow' = now
           /\ tickInst' = instDocs
           /\ tickRules' = {rules[r] : r \in DOMAIN rules}
           /\ tickQueue' = queue
           /\ tickPlan' = queue
           /\ evaluated' = {}
           /\ raisedPairs' = {}
           /\ lastEval' = NoEval
    /\ UNCHANGED <<now, active, samples, events, config, rollups, lastRollup, lastRange,
                   lastSampler, lastQuery, aside>>

\* One iteration of the inner loop of _evaluation_tick.
EvalStep ==
    /\ tickQueue # <<>>
    /\ \E fault \in Faults :
          LET p    == Head(tickQueue)
              res  == EvaluateOneRuleInstance(p.rule, p.instanceId, tickNow, cooldownSec, fault)
              S    == FetchSamplesInWindow(p.instanceId,
                                           tickNow - Max2(1, p.rule.windowSec), tickNow)
              pair == <<p.rule.id, p.instanceId>>
          IN  /\ events' = events \cup res.insert
              /\ tickQueue' = AfterPair(tickQueue, res.raised)
              /\ evaluated' = evaluated \cup {pair}
              /\ raisedPairs' = IF res.raised THEN raisedPairs \cup {pair} ELSE raisedPairs
              /\ lastEval' =
                    [acted |-> TRUE, ruleId |-> p.rule.id, ruleType |-> p.rule.type,
                     instanceId |-> p.instanceId, now |-> tickNow,
                     samplesCount |-> Cardinality(S),
                     fieldAbsent |-> FieldAbsent(p.rule, S),
                     signal |-> ComputeSignal(p.rule, S),
                     threshold |-> p.rule.threshold,
                     last |-> LatestEventForPair(p.instanceId, p.rule.id),
                     fault |-> fault, raised |-> res.raised,
                     eventsBefore |-> events]
    /\ UNCHANGED <<now, active, samples, config, tickNow, tickPlan, tickInst, tickRules,
                   rollups, lastRollup, lastRange, lastSampler, lastQuery, aside>>

\* A rollup row is written directly into metrics_rollups (as the tests seed them).
SeedRollup ==
    /\ Cardinality(rollups) < MaxSeeds
    /\ \E iid \in InstanceIds, k \in 1..2 :
          /\ rollups' = rollups \cup
                {MkRollupDoc(iid, FloorToBucket(now, bucketSeconds) - k * bucketSeconds,
                             "connections_current", <<1>>)}
          /\ retryFrom' = {p \in retryFrom : p[1] # iid}
    /\ NoHistory
    /\ UNCHANGED <<now, active, samples, events, config, tickNow, tickQueue,
                   samplerVars, loopVars, startVars, sideVars>>

\* Mutant: the enable flag is not read.
RollupTickAlwaysOn ==
    /\ tickQueue = <<>>
    /\ \E failing \in SUBSET active :
          \E res \in {RollupInstances(rollups, FetchActiveInstanceIds, now,
                                       bucketSeconds, failing)} :
              /\ rollups' = res.rows
              /\ lastRollup' = [acted |-> TRUE, now |-> now, instances |-> active,
                                failing |-> failing, raised |-> res.raised,
                                tried |-> res.tried, starts |-> res.starts,
                                rowsBefore |-> rollups, samplesBefore |-> samples,
                                owed |-> retryFrom]
              /\ retryFrom' = LeftUnwritten(rollups, res.rows, res.raised, now,
                                            bucketSeconds)
    /\ lastEval' = NoEval
    /\ lastRange' = NoRange
    /\ lastSampler' = NoSampler
    /\ UNCHANGED <<now, active, samples, events, config, tickNow, tickQueue,
                   tickPlan, tickInst, tickRules, evaluated, raisedPairs, samplerVars, loopVars, startVars, sideVars,
                   lastQuery>>

\* _rollup_tick.
RollupTick ==
    /\ tickQueue = <<>>
    /\ \/ /\ ~rollupEnabled
          /\ rollups' = rollups
          /\ lastRollup' = [acted |-> TRUE, now |-> now, instances |-> {},
                            failing |-> {}, raised |-> {}, tried |-> {}, starts |-> {},
                            rowsBefore |-> rollups, samplesBefore |-> samples,
                            owed |-> retryFrom]
          /\ retryFrom' = {}
       \/ /\ rollupEnabled
          /\ \E failing \in SUBSET active :
                \E res \in {RollupInstances(rollups, FetchActiveInstanceIds, now,
                                             bucketSeconds, failing)} :
                    /\ rollups' = res.rows
                    /\ lastRollup' = [acted |-> TRUE, now |-> now, instances |-> active,
                                      failing |-> failing, raised |-> res.raised,
                                      tried |-> res.tried, starts |-> res.starts,
                                      rowsBefore |-> rollups, samplesBefore |-> samples,
                                      owed |-> retryFrom]
                    /\ retryFrom' = LeftUnwritten(rollups, res.rows, res.raised, now,
                                                  bucketSeconds)
    /\ lastEval' = NoEval
    /\ lastRange' = NoRange
    /\ lastSampler' = NoSampler
    /\ UNCHANGED <<now, active, samples, events, config, tickNow, tickQueue,
                   tickPlan, tickInst, tickRules, evaluated, raisedPairs, samplerVars, loopVars, startVars, sideVars,
                   lastQuery>>

\* The bucket starts a caller of _rollup_instance_range passes: aligned to the
\* bucket width, from the first sample's bucket to the bucket in progress.
RangeStarts ==
    {b \in {FloorToBucket(RollupEpoch, bucketSeconds) + j * bucketSeconds :
              j \in 0..MaxCompactSteps} :
        b <= now}

\* _rollup_instance_range, called for an instance and a range of one or two buckets.
RollupRange ==
    /\ \E iid \in {"i1"}, start \in RangeStarts, n \in 1..2 :
          LET end == start + n * bucketSeconds
          IN  /\ rollups' = RollupInstanceRange(rollups, iid, start, end, bucketSeconds)
              /\ lastRange' = [acted |-> TRUE, instanceId |-> iid, start |-> start,
                               end |-> end,
                               again |-> /\ lastRange.acted
                                         /\ lastRange.instanceId = iid
                                         /\ lastRange.start = start
                                         /\ lastRange.end = end,
                               rowsBefore |-> rollups]
              /\ retryFrom' = {p \in retryFrom : p[1] # iid}
    /\ lastEval' = NoEval
    /\ lastRollup' = NoRollup
    /\ lastSampler' = NoSampler
    /\ UNCHANGED <<now, active, samples, events, config, tickNow, tickQueue,
                   tickPlan, tickInst, tickRules, evaluated, raisedPairs, samplerVars, loopVars, startVars, sideVars,
                   lastQuery>>

\* JSON null.
Null == "null"

\* The integer a JSON number of a request stands for.
JsonInt(v) == IF v = "1" THEN 1 ELSE 2

\* The JSON key of each field of AlertRuleUpdate: the alias where the field has
\* one, its name otherwise (schemas/alerts.py lines 47-65).
UpdateKeys == [enabled |-> "enabled", window_sec |-> "window_sec",
               instance_scope |-> "instanceScope"]

\* AlertRuleUpdate validated from a JSON body (a function from keys to values):
\* each field holds the value of its key, None when the key is absent or null,
\* and model_fields_set holds the names of the fields whose key is present.
ParseRuleUpdate(body) ==
    LET Val(f) == IF UpdateKeys[f] \in DOMAIN body /\ body[UpdateKeys[f]] # Null
                  THEN {body[UpdateKeys[f]]} ELSE {}
    IN  [enabled |-> {v = "true" : v \in Val("enabled")},
         window_sec |-> {JsonInt(v) : v \in Val("window_sec")},
         instance_scope |-> Val("instance_scope"),
         model_fields_set |-> {f \in DOMAIN UpdateKeys : UpdateKeys[f] \in DOMAIN body}]

\* _apply_rule_update.
ApplyRuleUpdate(existing, payload) ==
    LET u1 == IF payload.enabled # {}
              THEN [existing EXCEPT !.enabled = The(payload.enabled)] ELSE existing
        u2 == IF payload.window_sec # {}
              THEN [u1 EXCEPT !.windowSec = The(payload.window_sec)] ELSE u1
    IN  IF payload.instance_scope # {} \/ "instanceScope" \in payload.model_fields_set
        THEN [u2 EXCEPT !.instanceScope = payload.instance_scope]
        ELSE u2

RuleDoc(rid, type, scope, window) ==
    [id |-> rid, type |-> type, enabled |-> TRUE,
     threshold |-> 1, windowSec |-> window, instanceScope |-> scope]

NoPatch == [acted |-> FALSE, ruleId |-> "r1", body |-> [k \in {} |-> Null],
            before |-> RuleDoc("r1", "high_connections", {}, 1)]

Configs == {c \in CooldownChoices \X BOOLEAN : c[1] = 0 => ~c[2]}

InitBase(configs) ==
    /\ samples = {}
    /\ events = {}
    /\ \E c \in configs : cooldownSec = c[1] /\ tzAware = c[2]
    /\ tickNow = -1
    /\ tickQueue = <<>>
    /\ tickPlan = <<>>
    /\ tickInst = {}
    /\ tickRules = {}
    /\ evaluated = {}
    /\ raisedPairs = {}
    /\ lastEval = NoEval
    /\ rollups = {}
    /\ lastRollup = NoRollup
    /\ lastRange = NoRange
    /\ retryFrom = {}
    /\ SamplerIdle
    /\ LoopsIdle
    /\ TimersIdle
    /\ CacheIdle
    /\ lastPatch = NoPatch
    /\ threadsDone = {}
    /\ lateOps = {}
    /\ env = [k \in EnvKeys |-> Unset]
    /\ loadedConfig = {}
    /\ lastQuery = NoQuery

\* The store and the loops under the default sampler settings.
InitStore(configs) ==
    /\ InitBase(configs)
    /\ samplingInterval = 1
    /\ retention = 1

\* The state machine of a pair: one rule of any type, with a window of one or
\* two seconds, over the one active instance.
InitAlerts ==
    /\ InitStore(Configs)
    /\ now = 0
    /\ rollupEnabled = FALSE
    /\ bucketSeconds = 2 * HalfHour
    /\ active = {"i1"}
    /\ \E t \in RuleTypes, w \in 1..2 :
          rules = [r \in {"r1"} |-> RuleDoc("r1", t, {}, w)]

NextAlerts == Advance(1, MaxTime) \/ InsertSample(AlertSamples, MaxSamples) \/ TickStart \/ EvalStep

SpecAlerts == InitAlerts /\ [][NextAlerts]_vars

\* The pairs of a tick: a global and a scoped rule, instances that come and go.
InitScope ==
    /\ InitStore({<<2, FALSE>>})
    /\ now = 0
    /\ rollupEnabled = FALSE
    /\ bucketSeconds = 2 * HalfHour
    /\ active = InstanceIds
    /\ rules = [r \in {"r1", "r2"} |->
                  IF r = "r1" THEN RuleDoc("r1", "high_connections", {}, 1)
                  ELSE RuleDoc("r2", "slow_operations_rate", {"i2"}, 2)]

NextScope == Advance(1, MaxScopeTime) \/ InsertSample(ScopeSamples, MaxSamples) \/ SetActive \/ TickStart \/ EvalStep

SpecScope == InitScope /\ [][NextScope]_vars

\* The clock moves while a tick is under way: the tick keeps the `now` it read.
AdvanceDuringTick(limit) ==
    /\ tickQueue # <<>>
    /\ now + 1 <= limit
    /\ now' = now + 1
    /\ NoHistory
    /\ UNCHANGED <<active, samples, events, rollups, config, tickNow, tickQueue, aside>>

\* The sampler writes a sample between two evaluations of a tick.
InsertDuringTick(choices, limit) ==
    /\ tickQueue # <<>>
    /\ Cardinality(samples) < limit
    /\ \E c \in choices : samples' = samples \cup {MkSample(c[1], now, c[2])}
    /\ NoHistory
    /\ UNCHANGED <<now, active, events, rollups, config, tickNow, tickQueue, aside>>

\* The window of an evaluation: one high_connections rule over two instances
\* whose samples arrive before, between and during the ticks.
InitWindow ==
    /\ InitStore({<<0, FALSE>>})
    /\ now = 0
    /\ rollupEnabled = FALSE
    /\ bucketSeconds = 2 * HalfHour
    /\ active = InstanceIds
    /\ \E w \in 1 .. 2 : rules = [r \in {"r1"} |-> RuleDoc("r1", "high_connections", {}, w)]

NextWindow ==
    \/ Advance(1, MaxTime)
    \/ AdvanceDuringTick(MaxTime)
    \/ InsertSample(WindowSamples, MaxSamples)
    \/ InsertDuringTick(WindowSamples, MaxSamples)
    \/ TickStart
    \/ EvalStep

SpecWindow == InitWindow /\ [][NextWindow]_vars

\* patch_rule with a payload that sets enabled: the stored rule is replaced by
\* its update.  A request is served at any time, between the evaluations of a
\* tick as well.
SetRuleEnabled ==
    /\ \E r \in DOMAIN rules, e \in BOOLEAN :
          /\ rules[r].enabled # e
          /\ rules' = [rules EXCEPT ![r].enabled = e]
    /\ NoHistory
    /\ UNCHANGED <<now, active, samples, events, rollups, cooldownSec, tzAware,
                   rollupEnabled, bucketSeconds, tickNow, tickQueue, aside>>

\* Samples above and below the thresholds of both rules.
RuleSamples == {<<"i1", HiShape>>, <<"i1", LoShape>>}

\* The bodies of the PATCH requests: window_sec and instanceScope, each absent,
\* with a value or null.
PatchBodies ==
    UNION {[K -> {"2", "i1", Null}] : K \in SUBSET {"window_sec", "instanceScope"}}

ValidBody(body) ==
    /\ "window_sec" \in DOMAIN body => body["window_sec"] \in {"2", Null}
    /\ "instanceScope" \in DOMAIN body => body["instanceScope"] \in {"i1", Null}

\* PATCH /api/alerts/rules/{rule_id}: the stored rule is replaced by its update.
PatchRule ==
    /\ tickQueue = <<>>
    /\ \E r \in DOMAIN rules, body \in {b \in PatchBodies : ValidBody(b)} :
          /\ rules' = [rules EXCEPT ![r] = ApplyRuleUpdate(rules[r], ParseRuleUpdate(body))]
          /\ lastPatch' = [acted |-> TRUE, ruleId |-> r, body |-> body, before |-> rules[r]]
    /\ NoHistory
    /\ UNCHANGED <<now, active, samples, events, rollups, cooldownSec, tzAware,
                   rollupEnabled, bucketSeconds, tickNow, tickQueue, retryFrom,
                   samplerVars, loopVars, startVars, timerVars, cacheVars, threadVars>>

\* A global and a scoped rule that requests edit between the ticks.
NextPatch ==
    \/ Advance(1, MaxScopeTime)
    \/ InsertSample({<<"i1", HiShape>>}, MaxResumeSamples)
    \/ PatchRule
    \/ TickStart
    \/ EvalStep

SpecPatch == InitScope /\ [][NextPatch]_vars

\* Two global rules, each enabled or not, that requests enable and disable
\* while samples arrive and ticks run.
InitRules ==
    /\ InitStore({<<0, FALSE>>})
    /\ now = 0
    /\ rollupEnabled = FALSE
    /\ bucketSeconds = 2 * HalfHour
    /\ active = {"i1"}
    /\ \E e1 \in BOOLEAN, e2 \in BOOLEAN :
          rules = [r \in {"r1", "r2"} |->
                     IF r = "r1"
                     THEN [RuleDoc("r1", "high_connections", {}, 1) EXCEPT !.enabled = e1]
                     ELSE [RuleDoc("r2", "slow_operations_rate", {}, 2) EXCEPT !.enabled = e2]]

NextRules ==
    \/ Advance(1, MaxScopeTime)
    \/ InsertSample(RuleSamples, MaxSamples)
    \/ SetRuleEnabled
    \/ TickStart
    \/ EvalStep

SpecRules == InitRules /\ [][NextRules]_vars

\* The rollup engine: samples arrive, the clock moves by half hours, instances
\* come and go, and the tick runs.
InitRollup ==
    /\ InitStore({<<0, FALSE>>, <<0, TRUE>>})
    /\ now = RollupEpoch
    /\ active = InstanceIds
    /\ rules = [r \in {"r1"} |-> RuleDoc("r1", "high_connections", {}, 1)]
    /\ rollupEnabled \in BOOLEAN
    /\ bucketSeconds \in BucketChoices

NextRollup ==
    \/ Advance(HalfHour, RollupEpoch + MaxSteps * HalfHour)
    \/ InsertSample(RollupSamples, MaxSamples)
    \/ SetActive
    \/ SeedRollup
    \/ RollupTick

SpecRollup == InitRollup /\ [][NextRollup]_vars

\* The resume point of the tick: rows are seeded, ticks fail and are retried, and
\* the clock moves by more than a bucket between two ticks.
NextResume ==
    \/ Advance(3 * HalfHour, RollupEpoch + MaxResumeSteps * 3 * HalfHour)
    \/ InsertSample(ResumeSamples, MaxResumeSamples)
    \/ SeedRollup
    \/ RollupTick

SpecResume == InitRollup /\ [][NextResume]_vars

\* The counters of the servers under load move: up with the load, down when a
\* server restarts.
Workload(loaded) ==
    /\ \E iid \in loaded, c \in 0 .. MaxCount :
          /\ c # counters[iid]
          /\ counters' = [counters EXCEPT ![iid] = c]
    /\ NoHistory
    /\ UNCHANGED <<now, active, samples, events, rollups, config, tickNow, tickQueue,
                   retryFrom, lastCounters, samplerTicks, gapped, samplingInterval,
                   retention,
                   loopVars, startVars, sideVars>>

\* One tick of sampler_loop (lines 98-151).  The loop sleeps the rest of the
\* interval after a tick, so a tick starts an interval or more after the one
\* before.  faults names what fails for each instance, pruneFails whether the
\* delete of _apply_retention raises (it is not reached after a failed insert).
SamplerTick ==
    /\ IF samplerTicks = {} THEN TRUE ELSE now >= SetMax(samplerTicks) + samplingInterval
    /\ \E faults \in [InstanceIds -> SamplerFaults], pruneFails \in BOOLEAN :
          /\ \A i \in InstanceIds \ active : faults[i] = "none"
          /\ Cardinality({i \in InstanceIds : faults[i] # "none"}) <= MaxFaulty
          /\ pruneFails => \A i \in InstanceIds : faults[i] # "insert"
          /\ \E res \in {SampleInstances(SeqFilter(InstOrder, active), samples,
                                          lastCounters, faults, now)} :
                /\ lastCounters' = res.last
                /\ samples' = IF res.aborted \/ pruneFails
                              THEN res.samples
                              ELSE ApplyRetention(res.samples, now, retention)
                /\ targets' = [i \in InstanceIds |->
                                  IF i \in res.seen /\ faults[i] # "client"
                                  THEN TargetClient(targets, i,
                                                    BuildTargetUri(descriptors[i])).targets[i]
                                  ELSE targets[i]]
                /\ lastSampler' = [acted |-> TRUE, now |-> now, instances |-> active,
                                   faults |-> faults, seen |-> res.seen,
                                   aborted |-> res.aborted,
                                   pruned |-> ~res.aborted /\ ~pruneFails,
                                   samplesBefore |-> samples,
                                   beforePrune |-> res.samples,
                                   gappedBefore |-> gapped,
                                   handles |->
                                       [i \in {j \in res.seen : faults[j] # "client"} |->
                                           TargetClient(targets, i,
                                               BuildTargetUri(descriptors[i])).client]]
                /\ gapped' = (InstanceIds \ active)
                                \cup {i \in res.seen : faults[i] = "status"}
    /\ samplerTicks' = samplerTicks \cup {now}
    /\ lastEval' = NoEval
    /\ lastRollup' = NoRollup
    /\ lastRange' = NoRange
    /\ UNCHANGED <<now, active, events, config, rollups, tickNow, tickQueue, tickPlan,
                   tickInst, tickRules, evaluated, raisedPairs, retryFrom, counters,
                   samplingInterval, retention, loopVars,
                   startVars, timerVars, descriptors, lastPatch, threadVars, lastQuery>>

\* The sampler over two servers whose counters move, that come and go, and whose
\* queries and inserts may fail.
InitSampler ==
    /\ InitBase({<<0, FALSE>>})
    /\ now = 0
    /\ active = InstanceIds
    /\ rules = [r \in {"r1"} |-> RuleDoc("r1", "high_connections", {}, 1)]
    /\ rollupEnabled = FALSE
    /\ bucketSeconds = HalfHour
    /\ samplingInterval \in 1 .. 2
    /\ retention \in 1 .. 2

NextSampler ==
    Advance(1, MaxSamplerTime) \/ Workload({"i1"}) \/ SetActive \/ SamplerTick

SpecSampler == InitSampler /\ [][NextSampler]_vars

\* The prune of the sampler: the two servers are sampled as the clock moves.
NextRetention == Advance(1, MaxSamplerTime) \/ SamplerTick

SpecRetention == InitSampler /\ [][NextRetention]_vars

\* update_instance with a payload that sets host or tls: the document is replaced
\* and its uri rebuilt.  The client cache is not touched.
UpdateInstance ==
    /\ \E iid \in {"i1"}, host \in {"h1", "h2"}, tls \in BOOLEAN :
          /\ Descriptor(host, tls) # descriptors[iid]
          /\ descriptors' = [descriptors EXCEPT ![iid] = Descriptor(host, tls)]
    /\ NoHistory
    /\ UNCHANGED <<now, active, samples, events, rollups, config, tickNow, tickQueue,
                   retryFrom, samplerVars, loopVars, startVars, timerVars, targets,
                   lastPatch, threadVars>>

\* The sampler while the descriptor of an instance is edited.
NextCache == Advance(1, MaxSamplerTime) \/ UpdateInstance \/ SamplerTick

SpecCache == InitSampler /\ [][NextCache]_vars

\* What the life cycle of the loops never writes.
dataVars ==
    <<now, active, samples, events, rollups, config, tickNow, tickQueue, tickPlan,
      tickInst, tickRules, evaluated, raisedPairs, lastEval, lastRollup, lastRange, lastSampler,
      retryFrom, samplerVars, lastQuery>>

storeVars == <<dataVars, startVars, sideVars>>

LoopDone(l) == loopState[l] \in {"ended", "cancelled"}

\* Mutant: the loop does not look at its event before a tick.
LoopWakeOfUnchecked(l) ==
    /\ loopState[l] = "sleeping"
    /\ ticksRun[l] < MaxTicks
    /\ loopState' = [loopState EXCEPT ![l] = "ticking"]
    /\ ticksRun' = [ticksRun EXCEPT ![l] = @ + 1]
    /\ UNCHANGED <<shutdownEvent, hookAt, waited, abortedTicks, tickFailed, storeVars>>

\* `while not shutdown_event.is_set()` after the sleep of loop l timed out: the
\* next tick starts.
LoopWakeOf(l) ==
    /\ loopState[l] = "sleeping"
    /\ l \notin shutdownEvent
    /\ ticksRun[l] < MaxTicks
    /\ loopState' = [loopState EXCEPT ![l] = "ticking"]
    /\ ticksRun' = [ticksRun EXCEPT ![l] = @ + 1]
    /\ UNCHANGED <<shutdownEvent, hookAt, waited, abortedTicks, tickFailed, storeVars>>

LoopWake == \E l \in Range(Loops) : LoopWakeOf(l)

\* Mutant: an exception of the tick is not caught and ends the task.
TickEndOfFatal(l) ==
    /\ loopState[l] = "ticking"
    /\ \E raised \in BOOLEAN :
          /\ loopState' = [loopState EXCEPT ![l] = IF raised THEN "ended" ELSE "sleeping"]
          /\ tickFailed' = IF raised THEN tickFailed \cup {l} ELSE tickFailed \ {l}
    /\ UNCHANGED <<shutdownEvent, hookAt, waited, abortedTicks, ticksRun, storeVars>>

\* The tick of loop l returns, or raises an Exception that the loop catches and
\* logs; either way the loop goes on to wait for its event for the rest of the
\* interval.
TickEndOf(l) ==
    /\ loopState[l] = "ticking"
    /\ \E raised \in BOOLEAN :
          /\ loopState' = [loopState EXCEPT ![l] = "sleeping"]
          /\ tickFailed' = IF raised THEN tickFailed \cup {l} ELSE tickFailed \ {l}
    /\ UNCHANGED <<shutdownEvent, hookAt, waited, abortedTicks, ticksRun, storeVars>>

TickEnd == \E l \in Range(Loops) : TickEndOf(l)

\* The wait of the sleeping loop l returns because its event is set; the while
\* condition is false and the task ends.
LoopStopOf(l) ==
    /\ loopState[l] = "sleeping"
    /\ l \in shutdownEvent
    /\ loopState' = [loopState EXCEPT ![l] = "ended"]
    /\ UNCHANGED <<shutdownEvent, hookAt, waited, abortedTicks, ticksRun, tickFailed,
                   storeVars>>

LoopStop == \E l \in Range(Loops) : LoopStopOf(l)

\* _on_shutdown starts: the event of the sampler is set and its task awaited.
HookStart ==
    /\ hookAt = 0
    /\ hookAt' = 1
    /\ shutdownEvent' = {Loops[1]}
    /\ waited' = 0
    /\ UNCHANGED <<loopState, abortedTicks, ticksRun, tickFailed, storeVars>>

\* A second passes while _on_shutdown awaits a task.  A sleeping loop whose event
\* is set wakes at once, so no time passes before it has ended.
HookWait ==
    /\ hookAt \in DOMAIN Loops
    /\ ~LoopDone(Loops[hookAt])
    /\ \A l \in shutdownEvent : loopState[l] # "sleeping"
    /\ waited < ShutdownTimeout
    /\ waited' = waited + 1
    /\ UNCHANGED <<loopState, shutdownEvent, hookAt, abortedTicks, ticksRun, tickFailed,
                   storeVars>>

\* asyncio.wait_for(task, timeout=5.0) times out: it cancels the task.  The
\* CancelledError is raised at the await the task is suspended at; it is not an
\* Exception, so the except clauses of the loop and of its tick let it through.
HookTimeout ==
    /\ hookAt \in DOMAIN Loops
    /\ ~LoopDone(Loops[hookAt])
    /\ waited = ShutdownTimeout
    /\ loopState' = [loopState EXCEPT ![Loops[hookAt]] = "cancelled"]
    /\ abortedTicks' = IF loopState[Loops[hookAt]] = "ticking"
                       THEN abortedTicks \cup {Loops[hookAt]}
                       ELSE abortedTicks
    /\ UNCHANGED <<shutdownEvent, hookAt, waited, ticksRun, tickFailed, storeVars>>

\* The awaited task is done (or wait_for raised, which is logged): _on_shutdown
\* goes on to the next loop, and after the last one closes the Mongo clients.
HookNext ==
    /\ hookAt \in DOMAIN Loops
    /\ LoopDone(Loops[hookAt])
    /\ hookAt' = hookAt + 1
    /\ shutdownEvent' = IF hookAt < Len(Loops)
                        THEN shutdownEvent \cup {Loops[hookAt + 1]}
                        ELSE shutdownEvent
    /\ waited' = 0
    /\ UNCHANGED <<loopState, abortedTicks, ticksRun, tickFailed, storeVars>>

\* The three loops from startup to the end of _on_shutdown.
InitShutdown ==
    /\ InitStore({<<0, FALSE>>})
    /\ now = 0
    /\ active = InstanceIds
    /\ rules = [r \in {"r1"} |-> RuleDoc("r1", "high_connections", {}, 1)]
    /\ rollupEnabled \in BOOLEAN
    /\ bucketSeconds = HalfHour

NextShutdown ==
    LoopWake \/ TickEnd \/ LoopStop \/ HookStart \/ HookWait \/ HookTimeout \/ HookNext

SpecShutdown == InitShutdown /\ [][NextShutdown]_vars

\* _on_shutdown has gone past its three waits and called state.mongo.close()
\* (main.py line 108).
Closed == hookAt > Len(Loops)

\* Every await of a tick is a _run_in_thread (asyncio.to_thread) of a blocking
\* store call, so a task cancelled during a tick was waiting for a call that a
\* worker thread is executing.  Cancelling the task does not stop the thread.
InFlight == abortedTicks \ threadsDone

\* The store call that the cancelled task of loop l left in its worker thread
\* returns.
ThreadDoneOf(l) ==
    /\ l \in InFlight
    /\ threadsDone' = threadsDone \cup {l}
    /\ lateOps' = IF Closed THEN lateOps \cup {l} ELSE lateOps
    /\ UNCHANGED <<loopVars, dataVars, startVars, timerVars, cacheVars, lastPatch>>

ThreadDone == \E l \in Range(Loops) : ThreadDoneOf(l)

\* _on_shutdown, the loops and the worker threads of their store calls.
NextClose ==
    \/ LoopWake \/ TickEnd \/ LoopStop
    \/ HookStart \/ HookWait \/ HookTimeout \/ HookNext
    \/ ThreadDone

SpecClose == InitShutdown /\ [][NextClose]_vars

\* The loops on their own, with ticks that end before _on_shutdown loses
\* patience.  A tick that terminates ends, a sleep whose timeout elapses or whose
\* event is set returns: weak fairness of each loop's steps.
NextLoops == LoopWake \/ TickEnd \/ LoopStop \/ HookStart \/ HookNext

LoopsFair ==
    \A l \in Range(Loops) :
        WF_vars(LoopWakeOf(l)) /\ WF_vars(TickEndOf(l)) /\ WF_vars(LoopStopOf(l))

SpecLoops == InitShutdown /\ [][NextLoops]_vars /\ LoopsFair

\* The interval of loop l in seconds, as the loop reads it from the
\* configuration when it starts (sampler line 90, evaluator line 236, rollup
\* line 202).
IntervalOf(l) ==
    LET cfg == LoadConfig(env)
    IN  IF l = "sampler" THEN Max2(1, cfg.metrics_sampling_interval_sec)
        ELSE IF l = "alerts" THEN Max2(1, cfg.alert_eval_interval_sec)
        ELSE Max2(5, cfg.metrics_rollup_compaction_interval_sec)

\* The least sleep of loop l, in tenths of a second: 0.1 s, and 0.5 s for the
\* rollup loop.
MinSleep(l) == IF l = "rollup" THEN 5 ELSE 1

\* Mutant: the sleep is the rest of the interval, without a floor.
SleepForNoFloor(l, elapsed) == Max2(0, 10 * IntervalOf(l) - elapsed)

\* sleep_for = max(min_sleep, interval - elapsed), in tenths of a second.
SleepFor(l, elapsed) == Max2(MinSleep(l), 10 * IntervalOf(l) - elapsed)

\* Time passes.  The instants looked at are those up to MaxDrift tenths of a
\* second after a multiple of the longest step.
Tock ==
    /\ \E d \in TimeSteps :
          /\ clock + d <= MaxClock
          /\ (clock + d) % LongStep <= MaxDrift
          /\ clock' = clock + d
    /\ UNCHANGED <<tickStarted, tickEnded, sleepFor, lastWake, loopVars, dataVars, startVars,
                   cacheVars, lastPatch, threadVars>>

\* The wait_for of loop l times out, sleep_for after the wait began or later; the
\* event is not set, so the next tick starts and reads tick_started.  The loops
\* share no timer, and a behaviour follows the ticks of one of them.
TimedWakeOf(l) ==
    /\ loopState[l] = "sleeping"
    /\ \A m \in Range(Loops) : m # l => ticksRun[m] = 0
    /\ l \notin shutdownEvent
    /\ ticksRun[l] < MaxTicks
    /\ clock >= tickEnded[l] + sleepFor[l]
    /\ loopState' = [loopState EXCEPT ![l] = "ticking"]
    /\ ticksRun' = [ticksRun EXCEPT ![l] = @ + 1]
    /\ tickStarted' = [tickStarted EXCEPT ![l] = clock]
    /\ lastWake' = [acted |-> TRUE, loop |-> l, wait |-> clock - tickEnded[l],
                    byEvent |-> FALSE, afterTick |-> ticksRun[l] > 0,
                    elapsed |-> tickEnded[l] - tickStarted[l]]
    /\ UNCHANGED <<clock, tickEnded, sleepFor, shutdownEvent, hookAt, waited,
                   abortedTicks, tickFailed, dataVars, startVars,
                   cacheVars, lastPatch, threadVars>>

TimedWake == \E l \in Range(Loops) : TimedWakeOf(l)

\* The tick of loop l ends (it returned or its exception was logged); elapsed
\* and sleep_for are computed and the wait begins.
TimedTickEndOf(l) ==
    /\ loopState[l] = "ticking"
    /\ \E raised \in BOOLEAN :
          /\ loopState' = [loopState EXCEPT ![l] = "sleeping"]
          /\ tickFailed' = IF raised THEN tickFailed \cup {l} ELSE tickFailed \ {l}
    /\ tickEnded' = [tickEnded EXCEPT ![l] = clock]
    /\ sleepFor' = [sleepFor EXCEPT ![l] = SleepFor(l, clock - tickStarted[l])]
    /\ UNCHANGED <<clock, tickStarted, lastWake, shutdownEvent, hookAt, waited,
                   abortedTicks, ticksRun, dataVars, startVars,
                   cacheVars, lastPatch, threadVars>>

TimedTickEnd == \E l \in Range(Loops) : TimedTickEndOf(l)

\* The wait of loop l returns because the event is set, however short the wait
\* has been; the task ends.
TimedStopOf(l) ==
    /\ loopState[l] = "sleeping"
    /\ l \in shutdownEvent
    /\ loopState' = [loopState EXCEPT ![l] = "ended"]
    /\ lastWake' = [acted |-> TRUE, loop |-> l, wait |-> clock - tickEnded[l],
                    byEvent |-> TRUE, afterTick |-> ticksRun[l] > 0,
                    elapsed |-> tickEnded[l] - tickStarted[l]]
    /\ UNCHANGED <<clock, tickStarted, tickEnded, sleepFor, shutdownEvent, hookAt,
                   waited, abortedTicks, ticksRun, tickFailed, dataVars, startVars,
                   cacheVars, lastPatch, threadVars>>

TimedStop == \E l \in Range(Loops) : TimedStopOf(l)

\* The loops with their ticks and waits in time, until _on_shutdown stops them.
NextTimer == Tock \/ TimedWake \/ TimedTickEnd \/ TimedStop \/ HookStart \/ HookNext

SpecTimer == InitShutdown /\ [][NextTimer]_vars

\* The insert of a sample lands: the sampler stamps ts (line 135) before it awaits
\* insert_one (line 146), so the document reaches the store `delay` seconds after
\* its timestamp.
LandSample(choices, limit, delays) ==
    /\ tickQueue = <<>>
    /\ Cardinality(samples) < limit
    /\ \E c \in choices, delay \in delays :
          samples' = samples \cup {MkSample(c[1], now - delay, c[2])}
    /\ NoHistory
    /\ UNCHANGED <<now, active, events, rollups, config, tickNow, tickQueue, aside>>

\* _rollup_instance_range over completed buckets only, as _rollup_tick bounds it
\* (end_exclusive = floor(now), line 166).
RollupCompleted ==
    /\ RollupRange
    /\ lastRange'.end <= FloorToBucket(now, bucketSeconds)

\* POST /api/metrics/{instance_id}/timeseries over the last half hour or the last
\* two hours.
Query ==
    /\ \E iid \in {"i1"}, metric \in {"connections_current", "operations_per_sec"},
          span \in {HalfHour, 4 * HalfHour} :
          lastQuery' = [acted |-> TRUE, instanceId |-> iid, metric |-> metric,
                        start |-> now - span, end |-> now,
                        points |-> GetTimeseries(iid, metric, now - span, now, StepSeconds)]
    /\ UNCHANGED <<now, active, samples, events, rollups, config, tickNow, tickQueue,
                   tickPlan, tickInst, tickRules, evaluated, raisedPairs, lastEval, lastRollup,
                   lastRange, lastSampler, retryFrom, samplerVars, loopVars, startVars, sideVars>>

\* Queries over a store that receives samples and rollup rows.
NextQuery ==
    \/ Advance(HalfHour, RollupEpoch + MaxCompactSteps * HalfHour)
    \/ InsertSample(RollupSamples, MaxSamples)
    \/ SeedRollup
    \/ Query

SpecQuery == InitRollup /\ [][NextQuery]_vars

\* The operator sets an environment variable before the process starts.
SetEnv ==
    /\ loadedConfig = {}
    /\ \E k \in EnvKeys, raw \in RawValues :
          /\ env[k] = Unset
          /\ Cardinality({j \in EnvKeys : env[j] # Unset}) < MaxEnvSet
          /\ env' = [env EXCEPT ![k] = raw]
    /\ UNCHANGED <<loadedConfig, dataVars, loopVars, sideVars>>

\* init_state(app, load_config()) when the module is imported (main.py line 40).
Startup ==
    /\ loadedConfig = {}
    /\ loadedConfig' = {LoadConfig(env)}
    /\ UNCHANGED <<env, dataVars, loopVars, sideVars>>

\* The configuration: variables are set, then the process starts.
NextConfig == SetEnv \/ Startup

SpecConfig == InitShutdown /\ [][NextConfig]_vars

\* The compaction of a range, called directly and through the tick, over samples
\* that keep arriving.
NextCompact ==
    \/ Advance(HalfHour, RollupEpoch + MaxCompactSteps * HalfHour)
    \/ InsertSample(RollupSamples, MaxSamples)
    \/ RollupRange
    \/ RollupTick

InitCompact ==
    /\ InitStore({<<0, FALSE>>})
    /\ now = RollupEpoch
    /\ active = InstanceIds
    /\ rules = [r \in {"r1"} |-> RuleDoc("r1", "high_connections", {}, 1)]
    /\ rollupEnabled = TRUE
    /\ bucketSeconds \in BucketChoices

SpecCompact == InitCompact /\ [][NextCompact]_vars

\* A run of _rollup_instance_range over completed buckets that fails after one or
\* two of the three rows of a bucket.
RollupRangeFails ==
    /\ \E iid \in {"i1"}, start \in RangeStarts, done \in 1 .. 2 :
          /\ start + bucketSeconds <= FloorToBucket(now, bucketSeconds)
          /\ rollups' = RollupInstanceRangeFailing(rollups, iid, start,
                              FloorToBucket(now, bucketSeconds), bucketSeconds, done)
          /\ retryFrom' = {p \in retryFrom : p[1] # iid}
    /\ NoHistory
    /\ UNCHANGED <<now, active, samples, events, config, tickNow, tickQueue,
                   samplerVars, loopVars, startVars, sideVars>>

\* Compaction runs that fail part-way, followed by ticks.
NextPartial ==
    \/ Advance(HalfHour, RollupEpoch + MaxCompactSteps * HalfHour)
    \/ InsertSample(RollupSamples, MaxSamples)
    \/ RollupRangeFails
    \/ RollupTick

SpecPartial == InitCompact /\ [][NextPartial]_vars

\* metrics_rollups holds a row written under a bucket width of BucketChoices,
\* the configured one or another (METRICS_ROLLUP_BUCKET_SECONDS as it was before
\* a restart).
SeedRollupOfWidth ==
    /\ Cardinality(rollups) < MaxSeeds
    /\ \E iid \in {"i1"}, w \in BucketChoices, k \in 1..2 :
          /\ rollups' = rollups \cup
                {MkRollupDoc(iid, FloorToBucket(now, w) - k * w, "connections_current", <<1>>)}
          /\ retryFrom' = {p \in retryFrom : p[1] # iid}
    /\ NoHistory
    /\ UNCHANGED <<now, active, samples, events, config, tickNow, tickQueue,
                   samplerVars, loopVars, startVars, sideVars>>

\* _rollup_instance_range over the range _rollup_tick computes for an instance:
\* from the bucket after the latest row, or from the lookback, to floor(now)
\* (lines 166-181).
RollupResume ==
    /\ \E iid \in {"i1"} :
          LET start == StartBucket(rollups, iid, now, bucketSeconds)
              end == FloorToBucket(now, bucketSeconds)
          IN  /\ start < end
              /\ rollups' = RollupInstanceRange(rollups, iid, start, end, bucketSeconds)
              /\ lastRange' = [acted |-> TRUE, instanceId |-> iid, start |-> start,
                               end |-> end, again |-> FALSE, rowsBefore |-> rollups]
              /\ retryFrom' = {p \in retryFrom : p[1] # iid}
    /\ lastEval' = NoEval
    /\ lastRollup' = NoRollup
    /\ lastSampler' = NoSampler
    /\ UNCHANGED <<now, active, samples, events, config, tickNow, tickQueue,
                   tickPlan, tickInst, tickRules, evaluated, raisedPairs, samplerVars,
                   loopVars, startVars, sideVars, lastQuery>>

\* The resume point over a store whose rows may come from another bucket width.
NextAlign ==
    \/ Advance(HalfHour, RollupEpoch + MaxSteps * HalfHour)
    \/ InsertSample(RollupSamples, MaxSamples)
    \/ SeedRollupOfWidth
    \/ RollupResume
    \/ RollupTick

SpecAlign == InitCompact /\ [][NextAlign]_vars

\* Sampler inserts that land late, interleaved with the compaction of completed
\* buckets.
NextInterleave ==
    \/ Advance(HalfHour, RollupEpoch + MaxCompactSteps * HalfHour)
    \/ LandSample(RollupSamples, MaxSamples, 0 .. 1)
    \/ RollupCompleted

SpecInterleave == InitCompact /\ [][NextInterleave]_vars

(***************************************************************************)
(* Properties of the alert evaluator.                                      *)
(***************************************************************************)
SamePair(e, f) == e.ruleId = f.ruleId /\ e.instanceId = f.instanceId

Consecutive(e, f) ==
    /\ SamePair(e, f)
    /\ e.createdAt < f.createdAt
    /\ ~\E g \in events :
          SamePair(e, g) /\ e.createdAt < g.createdAt /\ g.createdAt < f.createdAt

Above(sig, threshold) == The(sig).num > threshold * The(sig).den

\* The evaluation just made met no store failure.
Evaluated == lastEval.acted /\ lastEval.fault = "none"

WroteNothing == events = lastEval.eventsBefore

JustWritten == events \ lastEval.eventsBefore

TickDone == tickQueue = <<>> /\ tickPlan # <<>>

PlannedPairs == {<<tickPlan[k].rule.id, tickPlan[k].instanceId>> : k \in DOMAIN tickPlan}

\* C1: the events of a pair have distinct creation times, and two consecutive
\* events of a pair never carry the same status.
C1_StateChangeOnly ==
    \A e, f \in events :
        /\ (SamePair(e, f) /\ e # f) => e.createdAt # f.createdAt
        /\ Consecutive(e, f) => e.status # f.status

\* C1 witness: a pair whose latest event is `triggered` was evaluated in a later
\* tick with the signal still above the threshold, and nothing was written.
C1_Witness ==
    /\ Evaluated /\ ~lastEval.raised
    /\ lastEval.last # {} /\ The(lastEval.last).status = "triggered"
    /\ The(lastEval.last).createdAt < lastEval.now
    /\ lastEval.signal # {} /\ Above(lastEval.signal, lastEval.threshold)
    /\ WroteNothing

\* C2 (as claimed): a pair without events is `ok`: its evaluation with a signal
\* that is defined (from samples that hold the field) and not above the threshold
\* writes nothing, so the first event written for a pair is a `triggered` one.
C2_FirstEventTriggered ==
    (Evaluated /\ lastEval.last = {} /\ lastEval.signal # {} /\ ~lastEval.fieldAbsent)
    => /\ ~Above(lastEval.signal, lastEval.threshold) => WroteNothing
       /\ \A e \in JustWritten : e.eventType = "triggered"

\* C3 (as claimed): latest event `triggered`, cooldown elapsed, signal defined
\* (from samples that hold the field) and not above the threshold, no store
\* failure: the evaluation appends exactly one event, `resolved` with status `ok`.
C3_ResolveAfterCooldown ==
    (/\ Evaluated
     /\ lastEval.last # {} /\ The(lastEval.last).status = "triggered"
     /\ lastEval.now - The(lastEval.last).createdAt >= cooldownSec
     /\ lastEval.signal # {} /\ ~lastEval.fieldAbsent
     /\ ~Above(lastEval.signal, lastEval.threshold))
    => /\ Cardinality(JustWritten) = 1
       /\ \A e \in JustWritten :
             /\ e.ruleId = lastEval.ruleId /\ e.instanceId = lastEval.instanceId
             /\ e.eventType = "resolved" /\ e.status = "ok"
             /\ e.createdAt = lastEval.now

\* C4: with a positive cooldown, an evaluation of a pair whose latest event is
\* younger than the cooldown writes nothing, and two events of a pair are at least
\* the cooldown apart.
C4_CooldownSpacing ==
    cooldownSec > 0 =>
        /\ (lastEval.acted /\ lastEval.last # {}
              /\ lastEval.now - The(lastEval.last).createdAt < cooldownSec) => WroteNothing
        /\ \A e, f \in events :
              (SamePair(e, f) /\ e.createdAt < f.createdAt)
                 => f.createdAt - e.createdAt >= cooldownSec

\* C4 witness: the cooldown test itself suppressed a change of status.
C4_Witness ==
    /\ cooldownSec > 0 /\ tzAware
    /\ Evaluated /\ ~lastEval.raised
    /\ lastEval.last # {} /\ lastEval.signal # {}
    /\ (The(lastEval.last).status = "triggered") # Above(lastEval.signal, lastEval.threshold)
    /\ lastEval.now - The(lastEval.last).createdAt < cooldownSec
    /\ WroteNothing

\* C5: an evaluation whose window holds no sample writes no event and leaves the
\* latest event of the pair, hence its status, as it was.
C5_NoSamplesNoEvent ==
    (lastEval.acted /\ lastEval.samplesCount = 0)
    => /\ WroteNothing
       /\ LatestEventForPair(lastEval.instanceId, lastEval.ruleId) = lastEval.last

\* C5 witness: a triggered pair was evaluated over an empty window.
C5_Witness ==
    /\ Evaluated /\ lastEval.samplesCount = 0
    /\ lastEval.last # {} /\ The(lastEval.last).status = "triggered"

\* C6 (as claimed): when the field the rule type reads is missing from every
\* sample of the window, the signal is undefined and the evaluation writes nothing.
C6_MissingFieldSkipped ==
    (lastEval.acted /\ lastEval.fieldAbsent)
    => /\ lastEval.signal = {}
       /\ WroteNothing

\* C7: an event of a scoped rule carries the instance of the scope, and a
\* finished tick has evaluated a scoped rule against its scope only and a global
\* rule against exactly the instances that were active when the tick loaded them.
C7_ScopedAndGlobal ==
    /\ \A e \in events :
          rules[e.ruleId].instanceScope # {} => e.instanceId = The(rules[e.ruleId].instanceScope)
    /\ TickDone =>
          \A r \in DOMAIN rules :
              LET seen == {i \in InstanceIds : <<r, i>> \in evaluated}
              IN  IF ~rules[r].enabled THEN seen = {}
                  ELSE IF rules[r].instanceScope # {} THEN seen = rules[r].instanceScope
                  ELSE seen = tickInst

\* C7 witness: a tick finished after the set of active instances had changed, and
\* the global rule wrote an event for an instance that was active at load time.
C7_Witness ==
    /\ TickDone
    /\ active # tickInst
    /\ \E e \in events :
          /\ rules[e.ruleId].instanceScope = {}
          /\ e.createdAt = tickNow
          /\ e.instanceId \in tickInst \ active

\* C8: an event has status `triggered` exactly when its value is strictly greater
\* than its threshold; every other event has status `ok`.
C8_StrictThreshold ==
    \A e \in events :
        /\ e.status \in {"triggered", "ok"}
        /\ e.status = "triggered" <=> e.value.num > e.threshold * e.value.den

\* C8 witness: a pair that had triggered got an `ok` event from a signal equal to
\* the threshold.
C8_Witness ==
    \E e, f \in events :
        /\ Consecutive(e, f)
        /\ e.status = "triggered"
        /\ f.status = "ok" /\ f.value.num = f.threshold * f.value.den

\* C9: when a tick is over, every pair it selected has been evaluated, whatever
\* the evaluations of the other pairs raised.
C9_ErrorIsolation ==
    TickDone => evaluated = PlannedPairs

\* C9 witness: the first pair of a finished tick raised and a later pair of the
\* tick wrote its event.
C9_Witness ==
    /\ TickDone
    /\ Len(tickPlan) >= 3
    /\ <<tickPlan[1].rule.id, tickPlan[1].instanceId>> \in raisedPairs
    /\ \E e \in events :
          /\ e.createdAt = tickNow
          /\ <<e.ruleId, e.instanceId>> \in PlannedPairs \ raisedPairs

(***************************************************************************)
(* Properties of the rollup engine.                                        *)
(***************************************************************************)
BucketSamples(iid, b) ==
    {s \in samples : s.instanceId = iid /\ s.ts >= b /\ s.ts < b + bucketSeconds}

\* The bucket starts of [from, to), in steps of the bucket width.
BucketsOf(from, to) ==
    {b \in from..(to - 1) : (b - from) % bucketSeconds = 0}

HasRollupRow(iid, b, metric, vals) ==
    \E r \in rollups :
        /\ r.instanceId = iid /\ r.bucket = b /\ r.metric = metric
        /\ r.count = Cardinality(DOMAIN vals)
        /\ r.sum = FnSum(vals)
        /\ r.value.num = r.sum /\ r.value.den = r.count
        /\ r.min = SetMin({vals[x] : x \in DOMAIN vals})
        /\ r.max = SetMax({vals[x] : x \in DOMAIN vals})

\* C10 (as claimed): after a rollup tick with rollups enabled and no store failure,
\* every active instance has, for every completed bucket from its resume point on
\* that holds a sample, a row for each of the three metrics with the count, sum,
\* average, min and max of the bucket's samples.
C10_TickWritesRollups ==
    (lastRollup.acted /\ rollupEnabled /\ lastRollup.failing = {})
    => \A iid \in lastRollup.instances :
         \A b \in BucketsOf(StartBucket(lastRollup.rowsBefore, iid, lastRollup.now,
                                        bucketSeconds),
                            FloorToBucket(lastRollup.now, bucketSeconds)) :
            LET S == BucketSamples(iid, b)
            IN  S # {} =>
                  /\ HasRollupRow(iid, b, "connections_current",
                                  [s \in S |-> SafeFloat(s.connections)])
                  /\ HasRollupRow(iid, b, "memory_mb",
                                  [s \in S |-> SafeFloat(s.memResidentMB)])
                  /\ HasRollupRow(iid, b, "operations_per_sec",
                                  [s \in S |-> OpsSum(s.opsPerSec)])

\* The rows of one (instance, bucket start, metric).
RowsOfKey(iid, b, metric) ==
    {r \in rollups : r.instanceId = iid /\ r.bucket = b /\ r.metric = metric}

\* C11: the store holds at most one row per (instance, bucket start, metric), and
\* a call of _rollup_instance_range that repeats the previous call, the samples
\* being the same, leaves every row as it was (same value, min, max, sum, count).
C11_RollupIdempotent ==
    /\ \A r \in rollups : RowsOfKey(r.instanceId, r.bucket, r.metric) = {r}
    /\ (lastRange.acted /\ lastRange.again) => rollups = lastRange.rowsBefore

\* C11 witness: a repeated call over a range where the first call had written or
\* rewritten rows of two samples.
C11_Witness ==
    /\ lastRange.acted /\ lastRange.again
    /\ \E r \in rollups :
          /\ r.instanceId = lastRange.instanceId
          /\ r.bucket >= lastRange.start /\ r.bucket < lastRange.end
          /\ r.count = 2

\* C12: a rollup tick writes no row for the bucket that contains its `now` or for
\* a later one (every row it writes has bucket start + B <= now), and a call of
\* _rollup_instance_range writes rows of the buckets of [start, end) only.
C12_NoInProgressBucket ==
    /\ lastRollup.acted =>
          \A r \in rollups \ lastRollup.rowsBefore :
              r.bucket + bucketSeconds <= lastRollup.now
    /\ lastRange.acted =>
          \A r \in rollups \ lastRange.rowsBefore :
              /\ r.instanceId = lastRange.instanceId
              /\ r.bucket >= lastRange.start
              /\ r.bucket + bucketSeconds <= lastRange.end

\* C12 witness: a tick over an active instance whose samples are all in the bucket
\* in progress, with completed buckets to go through, left no row of that bucket.
C12_Witness ==
    /\ lastRollup.acted /\ rollupEnabled /\ lastRollup.failing = {}
    /\ \E iid \in lastRollup.instances :
          LET cur == FloorToBucket(lastRollup.now, bucketSeconds)
          IN  /\ BucketSamples(iid, cur) # {}
              /\ \A x \in samples : x.instanceId = iid => x.ts >= cur
              /\ <<iid, cur>> \notin lastRollup.starts
              /\ \E st \in lastRollup.starts : st[1] = iid /\ st[2] < cur
              /\ ~\E r \in rollups : r.instanceId = iid /\ r.bucket >= cur

\* C13: a rollup tick with the enable flag off reads no instance and no row, and
\* leaves the rollup rows and the raw samples as they were.
C13_DisabledTickNoOp ==
    (lastRollup.acted /\ ~rollupEnabled)
    => /\ rollups = lastRollup.rowsBefore
       /\ samples = lastRollup.samplesBefore
       /\ lastRollup.instances = {} /\ lastRollup.tried = {}
       /\ lastRollup.starts = {} /\ lastRollup.raised = {}

\* C13 witness: a disabled tick over a store that holds a rollup row and, for an
\* active instance, a sample in a completed bucket.
C13_Witness ==
    /\ lastRollup.acted /\ ~rollupEnabled
    /\ rollups # {}
    /\ \E x \in samples :
          /\ x.instanceId \in active
          /\ x.ts < FloorToBucket(lastRollup.now, bucketSeconds)

\* Two hours, or two buckets when that is longer.
TwoHoursOrTwoBuckets ==
    IF 2 * bucketSeconds >= 4 * HalfHour THEN 2 * bucketSeconds ELSE 4 * HalfHour

\* C14: in a rollup tick every instance whose latest row was read gets a first
\* bucket: the one after its latest row, or, without any row, the bucket that
\* contains now - max(2 x B, 2 hours); the tick writes no row of the instance
\* for an earlier bucket.
C14_ResumePoint ==
    (lastRollup.acted /\ rollupEnabled)
    => /\ \A iid \in lastRollup.tried \ lastRollup.failing :
             \E st \in lastRollup.starts : st[1] = iid
       /\ \A st \in lastRollup.starts :
             LET mine == {r \in lastRollup.rowsBefore : r.instanceId = st[1]}
                 from == lastRollup.now - TwoHoursOrTwoBuckets
             IN  /\ IF mine = {}
                    THEN /\ st[2] % bucketSeconds = 0
                         /\ st[2] <= from /\ from < st[2] + bucketSeconds
                    ELSE \E r \in mine :
                            /\ \A q \in mine : q.bucket <= r.bucket
                            /\ st[2] = r.bucket + bucketSeconds
                 /\ \A r \in rollups \ lastRollup.rowsBefore :
                       r.instanceId = st[1] => r.bucket >= st[2]

\* C14 witness: a tick computed the first bucket of an instance that had a row
\* and of an instance that had none.
C14_Witness ==
    /\ lastRollup.acted /\ rollupEnabled
    /\ \E s1, s2 \in lastRollup.starts :
          /\ \E r \in lastRollup.rowsBefore : r.instanceId = s1[1]
          /\ ~\E r \in lastRollup.rowsBefore : r.instanceId = s2[1]
          /\ \E x \in samples : x.instanceId = s2[1] /\ x.ts >= s2[2]

SamplerSamplesOf(iid) == {x \in samples : x.instanceId = iid}

\* x and y are consecutive samples of one instance in the store.
ConsecutiveSamples(x, y) ==
    /\ x.instanceId = y.instanceId
    /\ x.ts < y.ts
    /\ ~\E z \in SamplerSamplesOf(x.instanceId) : x.ts < z.ts /\ z.ts < y.ts

\* The sample that the latest tick wrote for the instance, if any.
WrittenFor(iid) ==
    {x \in lastSampler.beforePrune \ lastSampler.samplesBefore : x.instanceId = iid}

\* C16: for two consecutive samples of an instance at t1 < t2, each stored rate
\* is (counter(t2) - counter(t1)) / (t2 - t1), clamped at zero.
C16_RateOverElapsed ==
    \A x \in samples, y \in samples :
        ConsecutiveSamples(x, y)
        => \A k \in OpKeys :
              The(y.opsPerSec)[k].num * (y.ts - x.ts)
                 = Max2(0, y.opcounters[k] - x.opcounters[k]) * The(y.opsPerSec)[k].den

AllZero(x) == \A k \in OpKeys : The(x.opsPerSec)[k].num = 0

\* C17: the first sample of an instance, and the first sample written after a
\* tick that did not sample the instance (status query failed, or not active),
\* reports rate 0 for the four counters.
C17_NoStaleRates ==
    lastSampler.acted
    => \A iid \in InstanceIds : \A x \in WrittenFor(iid) :
          (iid \in lastSampler.gappedBefore
             \/ ~\E y \in lastSampler.samplesBefore : y.instanceId = iid)
          => AllZero(x)

\* The instances for which something failed in the latest sampler tick.
Faulty == {i \in lastSampler.instances : lastSampler.faults[i] # "none"}

\* C18: when the failures of a sampler tick are confined to one instance (its
\* client handle, its status query or the insert of its sample), every other
\* active instance has its sample written in that tick.
C18_SamplerIsolation ==
    (lastSampler.acted /\ Cardinality(Faulty) = 1)
    => \A i \in lastSampler.instances \ Faulty : WrittenFor(i) # {}

\* The cutoff of the prune of the latest sampler tick.
Cutoff == lastSampler.now - retention

\* C19: after a sampler tick whose prune succeeded, no sample older than
\* now - retention is in the store, and every sample at or after that cutoff
\* that was there before the prune is still there.
C19_RetentionBoundary ==
    (lastSampler.acted /\ lastSampler.pruned)
    => /\ \A x \in samples : x.ts >= Cutoff
       /\ \A x \in lastSampler.beforePrune : x.ts >= Cutoff => x \in samples

\* A prune that deletes an older sample and keeps the one at the cutoff.
C19_Witness ==
    /\ lastSampler.acted /\ lastSampler.pruned
    /\ \E x \in lastSampler.beforePrune : x.ts < Cutoff /\ x \notin samples
    /\ \E x \in samples : x.ts = Cutoff
    /\ \E x \in samples : x.ts > Cutoff

(***************************************************************************)
(* Properties of the shutdown sequence.                                    *)
(***************************************************************************)
\* C20: shutdown never aborts an in-flight tick: no loop task is cancelled in
\* the middle of a tick.
C20_NoAbortedTick == abortedTicks = {}

\* C21: once its event is set a loop starts no new tick, and it returns: the
\* tick in progress ends, the sleep in progress returns, the task ends.
C21_LoopTerminates ==
    /\ [][\A l \in Range(Loops) :
            (l \in shutdownEvent /\ loopState[l] # "ticking") => loopState'[l] # "ticking"]_vars
    /\ \A l \in Range(Loops) : (l \in shutdownEvent) ~> (loopState[l] = "ended")

\* A loop whose event was set during a tick has ended.
C21_Witness ==
    \E l \in Range(Loops) : l \in shutdownEvent /\ loopState[l] = "ended" /\ ticksRun[l] > 0

\* C22: a tick that raises does not end its loop: the loop sleeps, and unless
\* its event is set it runs a further tick.
C22_TickFailureNotFatal ==
    /\ [][\A l \in Range(Loops) :
            (loopState[l] = "ticking" /\ loopState'[l] # "ticking" /\ l \in tickFailed')
            => loopState'[l] = "sleeping"]_vars
    /\ \A l \in Range(Loops) :
          (l \in tickFailed /\ loopState[l] = "sleeping" /\ l \notin shutdownEvent
             /\ ticksRun[l] < MaxTicks)
          ~> (loopState[l] = "ticking" \/ l \in shutdownEvent)

\* A loop runs the tick after one that raised.
C22_Witness ==
    \E l \in Range(Loops) : l \in tickFailed /\ loopState[l] = "ticking" /\ ticksRun[l] > 1

(***************************************************************************)
(* Properties of the configuration.                                        *)
(***************************************************************************)
Loaded == The(loadedConfig)

\* The setting that load_config derives from the variable k.
SettingOf(k) ==
    IF k = "METRICS_SAMPLING_INTERVAL_SEC" THEN Loaded.metrics_sampling_interval_sec
    ELSE IF k = "METRICS_RETENTION_DAYS" THEN Loaded.metrics_retention_days
    ELSE IF k = "METRICS_ROLLUP_BUCKET_SECONDS" THEN Loaded.metrics_rollup_bucket_seconds
    ELSE IF k = "METRICS_ROLLUP_COMPACTION_INTERVAL_SEC"
         THEN Loaded.metrics_rollup_compaction_interval_sec
    ELSE IF k = "ALERT_EVAL_INTERVAL_SEC" THEN Loaded.alert_eval_interval_sec
    ELSE Loaded.alert_event_cooldown_sec

\* C23: whatever the variables hold, the loaded settings are within their safe
\* bounds, and a variable that is not an integer yields the default.
C23_ConfigNormalized ==
    loadedConfig # {}
    => /\ Loaded.metrics_sampling_interval_sec >= 1
       /\ Loaded.metrics_retention_days >= 1
       /\ Loaded.metrics_rollup_bucket_seconds \in 10 .. 3600
       /\ Loaded.metrics_rollup_compaction_interval_sec \in 5 .. 3600
       /\ Loaded.alert_eval_interval_sec >= 1
       /\ Loaded.alert_event_cooldown_sec >= 0
       /\ \A k \in EnvKeys : env[k] = Text => SettingOf(k) = EnvDefaults[k]

\* A configuration loaded from a negative integer and from a non-integer.
C23_Witness ==
    /\ loadedConfig # {}
    /\ \E k \in EnvKeys : env[k] = Text
    /\ \E k \in EnvKeys : env[k].kind = "int" /\ env[k].v < 0

(***************************************************************************)
(* Properties of the timeseries query.                                     *)
(***************************************************************************)
\* The rollup rows of the query's instance and metric in its range.
RowsInRange ==
    {r \in rollups : /\ r.instanceId = lastQuery.instanceId
                     /\ r.metric = lastQuery.metric
                     /\ lastQuery.start <= r.bucket /\ r.bucket <= lastQuery.end}

\* C24: with rollups enabled and a span of at least the threshold, the query
\* returns one point per rollup row of the instance and metric in the range,
\* with the row's value.
C24_PrefersRollups ==
    (lastQuery.acted /\ rollupEnabled /\ lastQuery.end - lastQuery.start >= QueryThreshold)
    => lastQuery.points = {[ts |-> r.bucket, value |-> r.value] : r \in RowsInRange}

(***************************************************************************)
(* Properties of the pipeline as a whole.                                  *)
(***************************************************************************)
\* The raw samples of the instance in the bucket of the row.
SamplesOfRow(r) ==
    {x \in samples : /\ x.instanceId = r.instanceId
                     /\ r.bucket <= x.ts /\ x.ts < r.bucket + bucketSeconds}

C26_PartialBucketRepaired ==
    (lastRollup.acted /\ rollupEnabled /\ lastRollup.failing = {})
    => \A r \in rollups :
          r.instanceId \in lastRollup.instances
          => \A m \in Metrics : RowsOfKey(r.instanceId, r.bucket, m) # {}

\* C27: every sampler tick reaches its prune after the loop over the instances,
\* also when processing an instance failed; a prune that fails leaves the
\* samples as the loop left them.
C27_PruneEveryTick ==
    lastSampler.acted
    => /\ ~lastSampler.aborted
       /\ lastSampler.pruned \/ samples = lastSampler.beforePrune

(***************************************************************************)
(* Further properties of the alert evaluator.                              *)
(***************************************************************************)
\* C28: in every event the type and the status agree: triggered with
\* triggered, resolved with ok.
C28_TypeMatchesStatus ==
    \A e \in events :
        /\ e.eventType \in {"triggered", "resolved"}
        /\ e.eventType = "triggered" <=> e.status = "triggered"
        /\ e.eventType = "resolved" <=> e.status = "ok"

\* The evaluator has written an event of each type.
C28_Witness ==
    /\ \E e \in events : e.eventType = "triggered"
    /\ \E e \in events : e.eventType = "resolved"

\* The samples of the evaluated instance dated within the rule's window, both
\* ends included.
InWindow ==
    {s \in samples : /\ s.instanceId = lastEval.instanceId
                     /\ lastEval.now - rules[lastEval.ruleId].windowSec <= s.ts
                     /\ s.ts <= lastEval.now}

DisabledAtLoad == {d.id : d \in {x \in tickRules : ~x.enabled}}

\* C30: a tick evaluates no rule that was disabled when the tick loaded the
\* rules, and no event an evaluation writes carries the id of such a rule.
C30_OnlyEnabledEvaluated ==
    /\ \A pair \in evaluated : pair[1] \notin DisabledAtLoad
    /\ lastEval.acted =>
          /\ lastEval.ruleId \notin DisabledAtLoad
          /\ \A e \in events \ lastEval.eventsBefore : e.ruleId \notin DisabledAtLoad

\* An evaluation writes an event in a tick that loaded the rules while another
\* rule was disabled, over samples that exceed the thresholds of both.
C30_Witness ==
    /\ Evaluated
    /\ events # lastEval.eventsBefore
    /\ DisabledAtLoad # {}
    /\ \E s \in samples :
          /\ s.instanceId = lastEval.instanceId
          /\ s.ts = lastEval.now
          /\ s.connections = {2}
          /\ s.opsPerSec = {Ops(2)}

\* C31: a wait that ends by its timeout after a tick lasted at least the floor
\* of its loop (0.1 s, 0.5 s for the rollup loop), however long the tick took.
C31_SleepFloor ==
    (lastWake.acted /\ lastWake.afterTick /\ ~lastWake.byEvent)
    => lastWake.wait >= MinSleep(lastWake.loop)

\* The rollup loop starts a tick exactly 0.5 s after a tick that took longer
\* than its interval.
C31_Witness ==
    /\ lastWake.acted /\ lastWake.afterTick /\ ~lastWake.byEvent
    /\ lastWake.loop = "rollup"
    /\ lastWake.elapsed > 10 * IntervalOf("rollup")
    /\ lastWake.wait = MinSleep("rollup")

C33_HandleOfCurrentDescriptor ==
    lastSampler.acted =>
        \A i \in DOMAIN lastSampler.handles :
            lastSampler.handles[i].uri = BuildTargetUri(descriptors[i])

\* The rule the latest PATCH was applied to, as stored.
Patched == rules[lastPatch.ruleId]

\* C34: after a PATCH whose body holds instanceScope: null the stored scope is
\* null and the next tick pairs the rule with every active instance; a PATCH
\* without the key leaves the scope as it was; a field whose key is not in the
\* body keeps its value.
C34_PatchScope ==
    lastPatch.acted =>
        /\ ("instanceScope" \in DOMAIN lastPatch.body
               /\ lastPatch.body["instanceScope"] = Null)
           => /\ Patched.instanceScope = {}
              /\ (tickNow = now /\ Patched.enabled)
                 => \A i \in tickInst :
                       \E k \in DOMAIN tickPlan :
                          /\ tickPlan[k].rule.id = lastPatch.ruleId
                          /\ tickPlan[k].instanceId = i
        /\ "instanceScope" \notin DOMAIN lastPatch.body
           => Patched.instanceScope = lastPatch.before.instanceScope
        /\ "enabled" \notin DOMAIN lastPatch.body
           => Patched.enabled = lastPatch.before.enabled
        /\ "window_sec" \notin DOMAIN lastPatch.body
           => Patched.windowSec = lastPatch.before.windowSec
        /\ Patched.type = lastPatch.before.type
        /\ Patched.threshold = lastPatch.before.threshold
        /\ Patched.id = lastPatch.before.id

\* The samples of the instance that the sampler has persisted, as the store held
\* them before the prune of the latest tick.
PersistedFor(iid) == {x \in lastSampler.beforePrune : x.instanceId = iid}

\* The instances whose status the latest tick read.
StatusRead == {i \in lastSampler.seen : lastSampler.faults[i] \notin {"client", "status"}}

\* C35: after a sampler tick the entry of last_counters of an instance holds the
\* opcounters of the most recent sample of the instance that was persisted.
C35_CacheIsPersisted ==
    lastSampler.acted =>
        \A i \in InstanceIds :
            (lastCounters[i] # {} /\ (PersistedFor(i) # {} \/ i \in StatusRead))
            => \E x \in PersistedFor(i) :
                  /\ \A y \in PersistedFor(i) : y.ts <= x.ts
                  /\ x.opcounters = The(lastCounters[i])

\* C36: an event the evaluator writes belongs to an instance that was active
\* when the tick loaded the instances.
C36_ActiveInstancesOnly ==
    lastEval.acted =>
        \A e \in events \ lastEval.eventsBefore : e.instanceId \in tickInst

\* C37: when the Mongo clients are closed every loop has been signalled and its
\* task is over, and no store call of a loop is still under way: none returns
\* after the close.
C37_CloseAfterLoops ==
    /\ Closed => /\ shutdownEvent = Range(Loops)
                 /\ \A l \in Range(Loops) : LoopDone(l)
                 /\ InFlight = {}
    /\ lateOps = {}

====
